---- MODULE Spec2Model ----
(***************************************************************************)
(* Entity/animation core of asciiquarium-rs: the EntityManager              *)
(* (src/src/entity.rs), the spawning functions (src/src/spawning.rs), the   *)
(* creature variants (src/src/entities/*.rs) and the orchestrating tick     *)
(* (src/src/app.rs).                                                        *)
(*                                                                          *)
(* Units.  Time is in milliseconds.  Positions are in thousandths of a      *)
(* screen cell and velocities in thousandths of a cell per frame, so that   *)
(* the f32 arithmetic of the code is exact integer arithmetic here for the  *)
(* time steps the model draws (multiples of 50 ms).                         *)
(***************************************************************************)
EXTENDS Integers, Sequences, FiniteSets, TLC

VARIABLES
    entities,           \* EntityManager.entities : key -> entity
    depth_layers,       \* EntityManager.depth_layers : depth -> sequence of keys
    next_id,            \* EntityManager.next_id
    large_creature_id,  \* the large-creature slot, NoId when empty
    classic_mode,       \* the classic-mode flag of the manager
    paused,             \* App.paused
    water_initialized,  \* App.water_initialized
    castle_created,     \* CastleManager: a castle was created for this screen
    fish_timer,         \* ms since App.last_fish_spawn  (saturating)
    bubble_timer,       \* ms since App.last_bubble_spawn (saturating)
    seaweed_timer,      \* ms since SeaweedManager.last_spawn (saturating)
    shark_timer,        \* ms since SharkManager.last_spawn (saturating)
    buffer,             \* the ratatui Buffer the entities are rendered into
    animation,          \* an Animation: frames, current_frame, looping, timing
    creature,           \* an entity that is updated outside a manager
    id_log,             \* history: every id add_entity returned, in order
    ticks,              \* history: how many times an unpaused App::tick has run
    calls,              \* history: how many direct calls have been made
    last                \* history: what the last operation did

vars == <<entities, depth_layers, next_id, large_creature_id, classic_mode,
          paused, water_initialized, castle_created, fish_timer, bubble_timer,
          seaweed_timer, shark_timer, buffer, animation, creature,
          id_log, ticks, calls, last>>

mgrVars == <<entities, depth_layers, next_id, large_creature_id, classic_mode>>
appVars == <<paused, water_initialized, castle_created, fish_timer,
             bubble_timer, seaweed_timer, shark_timer>>
unitVars == <<buffer, animation, creature>>

-----------------------------------------------------------------------------
(* Bounds of the model *)

\* unpaused ticks and direct calls of the manager and the spawning functions
\* run at most this often, taken together
MaxOps == 3

\* entities told by position, depth and sprite alone that are added to a manager
MaxGlyphs == 2

\* the area of the buffer
BufferWidth == 3
BufferHeight == 2

\* an Animation has at most this many frames
MaxFrames == 4

-----------------------------------------------------------------------------
(* Program constants *)

NoId == 0
ScreenWidth == 40
ScreenHeight == 24
FirstId == 1
FramesPerSecond == 60

DepthShark == 2
DepthFishStart == 3
DepthFishEnd == 20
DepthSeaweed == 21
DepthCastle == 22
DepthShip == 7
DepthWhale == 5
DepthSeaMonster == 5

FishSpawnIntervalMs == 2000
BubbleSpawnIntervalMs == 500
SeaweedSpawnIntervalMs == 5000
SharkSpawnIntervalMs == 30000
BubbleMaxAgeMs == 30000
FishPerArea == 350
SeaweedPerWidth == 15
WaterSurfaceTop == 9

\* thousandths of a cell in n cells
Cells(n) == n * 1000

Min(a, b) == IF a < b THEN a ELSE b
Max(a, b) == IF a > b THEN a ELSE b

\* u16::saturating_sub
SatSub(a, b) == IF a > b THEN a - b ELSE 0

\* an elapsed time is only ever compared with `limit`: keep it saturated
Saturate(t, limit) == IF t > limit THEN limit + 1 ELSE t

LargeTypes == {"ship", "whale", "sea_monster", "big_fish_1", "big_fish_2", "shark"}

-----------------------------------------------------------------------------
(* Inputs the model draws *)

\* delta_time of a tick (ms): a slow frame and a long stall
DeltaTimes == {250, 31000}

\* the draws of Fish::new_random the model makes: species (FishSpecies::random),
\* speed (rng.gen_range(0.5..2.0), thousandths of a cell per frame), depth
\* (depth::random_fish_depth, FISH_START..=FISH_END) and row
FishDrawn ==
    {[species |-> "OldTiny", speed |-> 1000, depth |-> DepthFishStart, row |-> 14],
     [species |-> "NewSmall1", speed |-> 500, depth |-> DepthFishEnd, row |-> 9]}
\* rng.gen_range(3..=6) of Seaweed::new_random
SeaweedHeights == {3}
\* rng.gen_range(8*60..12*60) seconds of Seaweed::new
SeaweedLifetimesMs == {480000}
\* rng.gen_range(1..max(width-1, 2)) of Seaweed::new_random
SeaweedColumns == {1}

-----------------------------------------------------------------------------
(* Sprites: bounding boxes  (Sprite::get_bounding_box) *)

OldSpecies == {"OldFancy", "OldSimple", "OldWavy", "OldTiny", "OldCommaLarge",
               "OldAngledFin", "OldCommaSmall", "OldRounded"}
NewSpecies == {"NewSmall1", "NewSmall2", "NewMedium1", "NewMedium2"}

\* <<width, height>> of the right- and left-facing sprite of a fish species
FishBox(species, dir) ==
    CASE species = "NewSmall1"     -> <<6, 5>>
      [] species = "NewSmall2"     -> IF dir = "R" THEN <<11, 7>> ELSE <<12, 7>>
      [] species = "NewMedium1"    -> <<23, 8>>
      [] species = "NewMedium2"    -> <<16, 5>>
      [] species = "OldFancy"      -> <<14, 6>>
      [] species = "OldSimple"     -> <<7, 5>>
      [] species = "OldWavy"       -> IF dir = "R" THEN <<17, 5>> ELSE <<20, 5>>
      [] species = "OldTiny"       -> <<5, 3>>
      [] species = "OldCommaLarge" -> <<9, 3>>
      [] species = "OldAngledFin"  -> <<6, 5>>
      [] species = "OldCommaSmall" -> <<5, 3>>
      [] species = "OldRounded"    -> <<5, 3>>

\* least width over the frames of the sea monster sprites of a kind and direction
SeaMonsterWidth(variant, dir) ==
    IF variant = "old" THEN (IF dir = "R" THEN 66 ELSE 64)
    ELSE (IF dir = "R" THEN 54 ELSE 53)

\* width of the big fish sprite of a variant and direction
BigFishWidth(variant, dir) ==
    IF variant = "Variant1" THEN 34
    ELSE IF dir = "R" THEN 36 ELSE 41

-----------------------------------------------------------------------------
(* Entities.  Every entity is a record with the same fields; a field a      *)
(* type does not have holds a fixed filler.                                 *)

Entity(type, id, x, y, depth, dx, dy, dir, variant) ==
    [type |-> type, id |-> id, x |-> x, y |-> y, depth |-> depth,
     dx |-> dx, dy |-> dy, dir |-> dir, alive |-> TRUE, variant |-> variant,
     teeth_id |-> NoId, shark_id |-> NoId, age |-> 0, life |-> 0]

\* Entity::depth: BigFish answers the constant SHARK, the others position.depth
DepthOf(e) == IF e.type \in {"big_fish_1", "big_fish_2"} THEN DepthShark ELSE e.depth

\* Entity::is_alive
IsAlive(e) ==
    IF e.type \in {"big_fish_1", "big_fish_2"}
    THEN /\ e.alive
         /\ IF e.dir = "R"
            THEN e.x < Cells(200)
            ELSE e.x + Cells(BigFishWidth(e.variant, e.dir)) > Cells(-200)
    ELSE e.alive

\* whether the entity type overrides Entity::death_callback, and with what
DeathCallback(e) ==
    CASE e.type = "fish" -> "add_fish"
      [] e.type \in {"whale", "sea_monster", "big_fish_1", "big_fish_2"} -> "random_object"
      [] OTHER -> "none"

\* position += velocity * delta_seconds * 60  (v * dt * 60 / 1000, with the
\* division split so that the product stays within 32 bits)
Step(v, dt) == (v * ((dt * FramesPerSecond) \div 10)) \div 100

\* Position::to_screen_coords on one coordinate: `as u16` truncates toward
\* zero and saturates, so a negative coordinate becomes 0
ToScreen(p) == IF p < 0 THEN 0 ELSE Min(p \div 1000, 65535)

Fish_new_random(id, w, h, classic, r) ==
    LET dir == IF id % 2 = 0 THEN "R" ELSE "L"
        box == FishBox(r.species, dir)
        x   == IF dir = "R" THEN Cells(1 - box[1]) ELSE Cells(w - 2)
        dx  == IF dir = "R" THEN r.speed ELSE 0 - r.speed
    IN  Entity("fish", id, x, Cells(r.row), r.depth, dx, 0, dir, r.species)

\* the draws of one Fish::new_random
FishDraws(h, classic) ==
    {r \in FishDrawn : r.row < Max(SatSub(h, FishBox(r.species, "R")[2]), 10)
                       /\ (classic => r.species \in OldSpecies)}

Seaweed_new_random(id, w, h, r) ==
    [Entity("seaweed", id, Cells(r.col), Cells(SatSub(h, r.height)), DepthSeaweed,
            0, 0, "N", "seaweed")
        EXCEPT !.life = r.life]

SeaweedDraws == [col : SeaweedColumns, height : SeaweedHeights, life : SeaweedLifetimesMs]

Castle_new(id, w, h) ==
    Entity("castle", id, Cells(SatSub(w, 32)), Cells(SatSub(h, 13)), DepthCastle,
           0, 0, "N", "castle")

\* depth::water_line_depth
water_line_depth(index) ==
    CASE index = 0 -> 8 [] index = 1 -> 6 [] index = 2 -> 4 [] index = 3 -> 2
      [] OTHER -> 8

WaterSurface_new(id, layer_index, w) ==
    Entity("water_surface", id, 0, Cells(5 + layer_index),
           water_line_depth(layer_index), 0, 0, "N", "water")

Ship_new(id, w, dir) ==
    IF dir = "R"
    THEN Entity("ship", id, Cells(-24), 0, DepthShip, 1000, 0, dir, "ship")
    ELSE Entity("ship", id, Cells(w + 2), 0, DepthShip, -1000, 0, dir, "ship")

Whale_new(id, w, dir) ==
    IF dir = "R"
    THEN Entity("whale", id, Cells(-18), 0, DepthWhale, 1000, 0, dir, "whale")
    ELSE Entity("whale", id, Cells(w + 2), 0, DepthWhale, -1000, 0, dir, "whale")

SeaMonster_new(id, w, classic, dir) ==
    LET variant == IF classic THEN "old" ELSE "new" IN
    IF dir = "R"
    THEN Entity("sea_monster", id, IF classic THEN Cells(-64) ELSE Cells(-54),
                Cells(2), DepthSeaMonster, 2000, 0, dir, variant)
    ELSE Entity("sea_monster", id, Cells(w - 2), Cells(2), DepthSeaMonster,
                -2000, 0, dir, variant)

\* BigFish::new_variant.  Its velocity is in cells per second: BigFish::update
\* does not scale by 60.
BigFish_new_variant(id, w, h, variant, dir, row) ==
    LET speed == IF variant = "Variant1" THEN 3000 ELSE 2500
        x == IF dir = "R" THEN (IF variant = "Variant1" THEN -34 ELSE -33) ELSE w - 1
    IN  Entity(IF variant = "Variant1" THEN "big_fish_1" ELSE "big_fish_2", id,
               Cells(x), Cells(row), DepthShark,
               IF dir = "R" THEN speed ELSE 0 - speed, 0, dir, variant)

\* rows BigFish::new_variant draws from: max_height..min_height
BigFishRows(h, variant) ==
    LET off == IF variant = "Variant1" THEN 15 ELSE 14
    IN  9 .. (Max(SatSub(h, off), 10) - 1)

\* variants BigFish::new draws from
BigFishVariants(classic) == IF classic THEN {"Variant1"} ELSE {"Variant1", "Variant2"}

\* rows Shark::new_random draws from: 9..max(height - 19, 10)
SharkRows(h) == 9 .. (Max(SatSub(h, 19), 10) - 1)

Shark_new_random(id, w, dir, row) ==
    IF dir = "R"
    THEN Entity("shark", id, Cells(-53), Cells(row), DepthShark, 2000, 0, dir, "shark")
    ELSE Entity("shark", id, Cells(w + 2), Cells(row), DepthShark, -2000, 0, dir, "shark")

\* Shark::get_teeth_position: <<x, y, depth>>
get_teeth_position(shark) ==
    <<shark.x + (IF shark.dir = "R" THEN Cells(44) ELSE Cells(-44)),
      shark.y + Cells(7), shark.depth + 1>>

SharkTeeth_new(id, pos, dx, dy, shark_id) ==
    [Entity("shark_teeth", id, pos[1], pos[2], pos[3], dx, dy, "N", "teeth")
        EXCEPT !.shark_id = shark_id]

-----------------------------------------------------------------------------
(* Entity::update of every type *)

\* a Fish::update that checks for death and moves nothing
Fish_update_standing_still(e, dt, w, h) ==
    IF ~e.alive THEN e
    ELSE [e EXCEPT !.alive = ~(e.x > Cells(w))]

Fish_update(e, dt, w, h) ==
    IF ~e.alive THEN e
    ELSE LET x == e.x + Step(e.dx, dt)
             box == FishBox(e.variant, e.dir)
             off_left   == x + Cells(box[1]) < 0
             off_right  == x > Cells(w)
             off_top    == e.y + Cells(box[2]) < 0
             off_bottom == e.y > Cells(h)
         IN  [e EXCEPT !.x = x,
                       !.alive = ~(off_left \/ off_right \/ off_top \/ off_bottom)]

Ship_update(e, dt, w, h) ==
    IF ~e.alive THEN e
    ELSE LET x == e.x + Step(e.dx, dt)
             off == IF e.dir = "R" THEN x > Cells(w + 30) ELSE x < Cells(-30)
         IN  [e EXCEPT !.x = x, !.alive = ~off]

Whale_update(e, dt, w, h) ==
    IF ~e.alive THEN e
    ELSE LET x == e.x + Step(e.dx, dt)
             off == IF e.dir = "R" THEN x > Cells(w + 20) ELSE x < Cells(-20)
         IN  [e EXCEPT !.x = x, !.alive = ~off]

SeaMonster_update(e, dt, w, h) ==
    IF ~e.alive THEN e
    ELSE LET x == e.x + Step(e.dx, dt)
             off == IF e.dir = "R" THEN x > Cells(w + 60) ELSE x < Cells(-60)
         IN  [e EXCEPT !.x = x, !.alive = ~off]

\* a BigFish::update that leaves the position alone
BigFish_update_at_rest(e, dt, w, h) == e

\* BigFish::update: no early return, no factor 60, no death test (is_alive
\* derives death from the position)
BigFish_update(e, dt, w, h) ==
    [e EXCEPT !.x = e.x + (e.dx * dt) \div 1000, !.y = e.y + (e.dy * dt) \div 1000]

Shark_update(e, dt, w, h) ==
    IF ~e.alive THEN e
    ELSE LET x == e.x + Step(e.dx, dt)
             y == e.y + Step(e.dy, dt)
             off == IF e.dir = "R" THEN x > Cells(w + 10) ELSE x < Cells(-60)
         IN  [e EXCEPT !.x = x, !.y = y, !.alive = ~off]

SharkTeeth_update(e, dt, w, h) ==
    IF ~e.alive THEN e
    ELSE LET x == e.x + Step(e.dx, dt)
             y == e.y + Step(e.dy, dt)
             off == x < Cells(-10) \/ x > Cells(w + 10)
         IN  [e EXCEPT !.x = x, !.y = y, !.alive = ~off]

\* Bubble::update.  created_at.elapsed() is the bubble's age after this tick.
\* a Bubble::update that pops the bubble at the top of the water, row 5
Bubble_update_popping_at_top(e, dt, w, h) ==
    IF ~e.alive THEN e
    ELSE LET x == e.x + Step(e.dx, dt)
             y == e.y + Step(e.dy, dt)
         IN  [e EXCEPT !.x = x, !.y = y, !.dy = Max(e.dy - 10, -2000),
                       !.age = Saturate(e.age + dt, BubbleMaxAgeMs),
                       !.alive = ~(y <= Cells(5) \/ ToScreen(x) > w + 5)]

Bubble_update(e, dt, w, h) ==
    IF ~e.alive THEN e
    ELSE LET x == e.x + Step(e.dx, dt)
             y == e.y + Step(e.dy, dt)
             dy == Max(e.dy - 10, -2000)
             age == Saturate(e.age + dt, BubbleMaxAgeMs)
             surfaced == y <= Cells(WaterSurfaceTop)
             too_old == age > BubbleMaxAgeMs
             \* pos.0 is a u16: `(pos.0 as i32) < -5` never holds
             off == ToScreen(x) > w + 5 \/ ToScreen(x) < -5
         IN  [e EXCEPT !.x = x, !.y = y, !.dy = dy, !.age = age,
                       !.alive = ~(surfaced \/ too_old \/ off)]

\* Seaweed::update: dies once Instant::now() >= die_time
Seaweed_update(e, dt, w, h) ==
    IF ~e.alive THEN e
    ELSE LET age == Saturate(e.age + dt, e.life)
         IN  [e EXCEPT !.age = age, !.alive = ~(age >= e.life)]

\* Castle::update and WaterSurface::update change nothing this model keeps
Static_update(e, dt, w, h) == e

EntityUpdate(e, dt, w, h) ==
    CASE e.type = "fish"          -> Fish_update(e, dt, w, h)
      [] e.type = "ship"          -> Ship_update(e, dt, w, h)
      [] e.type = "whale"         -> Whale_update(e, dt, w, h)
      [] e.type = "sea_monster"   -> SeaMonster_update(e, dt, w, h)
      [] e.type \in {"big_fish_1", "big_fish_2"} -> BigFish_update(e, dt, w, h)
      [] e.type = "shark"         -> Shark_update(e, dt, w, h)
      [] e.type = "shark_teeth"   -> SharkTeeth_update(e, dt, w, h)
      [] e.type = "bubble"        -> Bubble_update(e, dt, w, h)
      [] e.type = "seaweed"       -> Seaweed_update(e, dt, w, h)
      [] OTHER                    -> Static_update(e, dt, w, h)

-----------------------------------------------------------------------------
(* EntityManager.  The operations are functions on the manager value        *)
(*   [entities, depth_layers, next_id, slot, classic, log]                  *)
(* so that a handler that calls several of them composes them.              *)

Mgr == [entities |-> entities, depth_layers |-> depth_layers, next_id |-> next_id,
        slot |-> large_creature_id, classic |-> classic_mode, log |-> id_log]

\* EntityManager::new
EntityManager_new(classic) ==
    [entities |-> <<>>, depth_layers |-> <<>>, next_id |-> FirstId,
     slot |-> NoId, classic |-> classic, log |-> <<>>]

\* EntityManager::get_next_id
\* a get_next_id that answers the id after the next one
get_next_id_skipping(m) == m.next_id + 1

get_next_id(m) == m.next_id

\* a function with one more point
Put(f, k, v) == [x \in DOMAIN f \cup {k} |-> IF x = k THEN v ELSE f[x]]
\* a function with one point less
Drop(f, k) == [x \in DOMAIN f \ {k} |-> f[x]]
\* Vec::retain(|x| x != id)
Retain(s, id) == SelectSeq(s, LAMBDA x : x # id)

\* EntityManager::add_entity
\* an add_entity that hands out the smallest id not stored
add_entity_reusing(m, e) ==
    LET id == CHOOSE i \in 1 .. m.next_id :
                  i \notin DOMAIN m.entities /\ \A j \in 1 .. i - 1 : j \in DOMAIN m.entities
        depth == DepthOf(e)
        layer == IF depth \in DOMAIN m.depth_layers THEN m.depth_layers[depth] ELSE <<>>
    IN  [m EXCEPT !.next_id = Max(m.next_id, id + 1),
                  !.depth_layers = Put(m.depth_layers, depth, Append(layer, id)),
                  !.entities = Put(m.entities, id, e),
                  !.log = Append(m.log, id)]

add_entity(m, e) ==
    LET id == m.next_id
        depth == DepthOf(e)
        layer == IF depth \in DOMAIN m.depth_layers THEN m.depth_layers[depth] ELSE <<>>
    IN  [m EXCEPT !.next_id = id + 1,
                  !.depth_layers = Put(m.depth_layers, depth, Append(layer, id)),
                  !.entities = Put(m.entities, id, e),
                  !.log = Append(m.log, id)]

\* EntityManager::remove_entity
\* a remove_entity that cleans the depth index and keeps the entity
remove_entity_index_only(m, id) ==
    IF id \in DOMAIN m.entities
    THEN LET depth == DepthOf(m.entities[id])
         IN  IF depth \in DOMAIN m.depth_layers
             THEN [m EXCEPT !.depth_layers[depth] = Retain(m.depth_layers[depth], id)]
             ELSE m
    ELSE m

\* a remove_entity that leaves an emptied list in the depth index
remove_entity_keeping_layer(m, id) ==
    IF id \in DOMAIN m.entities
    THEN LET depth == DepthOf(m.entities[id])
             ents == Drop(m.entities, id)
         IN  IF depth \in DOMAIN m.depth_layers
             THEN [m EXCEPT !.entities = ents,
                            !.depth_layers[depth] = Retain(m.depth_layers[depth], id)]
             ELSE [m EXCEPT !.entities = ents]
    ELSE m

remove_entity(m, id) ==
    IF id \in DOMAIN m.entities
    THEN LET depth == DepthOf(m.entities[id])
             ents == Drop(m.entities, id)
         IN  IF depth \in DOMAIN m.depth_layers
             THEN LET layer == Retain(m.depth_layers[depth], id)
                  IN  [m EXCEPT !.entities = ents,
                                !.depth_layers =
                                    IF layer = <<>> THEN Drop(m.depth_layers, depth)
                                    ELSE [m.depth_layers EXCEPT ![depth] = layer]]
             ELSE [m EXCEPT !.entities = ents]
    ELSE m

RECURSIVE RemoveAll(_, _)
\* `for id in ids { remove_entity(id) }`; the result does not depend on the order
RemoveAll(m, ids) ==
    IF ids = {} THEN m
    ELSE LET id == CHOOSE i \in ids : TRUE
         IN  RemoveAll(remove_entity(m, id), ids \ {id})

\* the entities as update_all leaves them before its removal pass
Updated(m, dt, w, h) == [k \in DOMAIN m.entities |-> EntityUpdate(m.entities[k], dt, w, h)]

\* the keys update_all collects in dead_entities
DeadEntities(m, dt, w, h) == {k \in DOMAIN m.entities : ~IsAlive(Updated(m, dt, w, h)[k])}

\* an update_all that updates every entity and removes none
update_all_keeping_dead(m, dt, w, h) == [m EXCEPT !.entities = Updated(m, dt, w, h)]


\* EntityManager::update_all: update every entity, then remove the dead ones.
\* No death callback is invoked.
update_all(m, dt, w, h) ==
    RemoveAll([m EXCEPT !.entities = Updated(m, dt, w, h)], DeadEntities(m, dt, w, h))

\* EntityManager::get_entities_by_type, as the set of keys
get_entities_by_type(m, type) == {k \in DOMAIN m.entities : m.entities[k].type = type}

\* EntityManager::entity_count
entity_count(m) == Cardinality(DOMAIN m.entities)

\* EntityManager::has_large_creature: the slot names an entity that is stored
has_large_creature(m) == m.slot # NoId /\ m.slot \in DOMAIN m.entities

\* EntityManager::set_large_creature
set_large_creature(m, id) == [m EXCEPT !.slot = id]

\* EntityManager::classic_mode
classic_mode_of(m) == m.classic

-----------------------------------------------------------------------------
(* Spawning functions (src/src/spawning.rs).  The last parameter of each    *)
(* is what its random draws came to.                                        *)

\* add_fish
add_fish(m, w, h, r) ==
    add_entity(m, Fish_new_random(get_next_id(m), w, h, classic_mode_of(m), r))

\* add_seaweed
add_seaweed(m, w, h, r) ==
    add_entity(m, Seaweed_new_random(get_next_id(m), w, h, r))

\* add_ship
add_ship(m, w, h, r) ==
    IF has_large_creature(m) THEN m
    ELSE LET ship_id == get_next_id(m)
         IN  add_entity(set_large_creature(m, ship_id), Ship_new(ship_id, w, r.dir))

\* an add_whale that does not ask has_large_creature
add_whale_unguarded(m, w, h, r) ==
    LET whale_id == get_next_id(m)
    IN  add_entity(set_large_creature(m, whale_id), Whale_new(whale_id, w, r.dir))

\* add_whale
add_whale(m, w, h, r) ==
    IF has_large_creature(m) THEN m
    ELSE LET whale_id == get_next_id(m)
         IN  add_entity(set_large_creature(m, whale_id), Whale_new(whale_id, w, r.dir))

\* add_sea_monster
add_sea_monster(m, w, h, r) ==
    IF has_large_creature(m) THEN m
    ELSE LET monster_id == get_next_id(m)
         IN  add_entity(set_large_creature(m, monster_id),
                        SeaMonster_new(monster_id, w, classic_mode_of(m), r.dir))

\* the shark and its teeth as add_shark and App::maybe_spawn_shark build them:
\* both ids are read from get_next_id before either entity is added
SharkPair(m, w, h, r) ==
    LET shark_id == get_next_id(m)
        teeth_id == get_next_id(m)
        shark == Shark_new_random(shark_id, w, r.dir, r.row)
        teeth == SharkTeeth_new(teeth_id, get_teeth_position(shark),
                                shark.dx, shark.dy, shark_id)
    IN  <<[shark EXCEPT !.teeth_id = teeth_id], teeth>>

\* add_shark
add_shark(m, w, h, r) ==
    IF has_large_creature(m) THEN m
    ELSE LET pair == SharkPair(m, w, h, r)
         IN  add_entity(add_entity(set_large_creature(m, get_next_id(m)), pair[1]),
                        pair[2])

\* add_big_fish.  BigFish::new gives a classic-mode manager Variant1 only.
add_big_fish(m, w, h, r) ==
    IF has_large_creature(m) THEN m
    ELSE LET fish_id == get_next_id(m)
             variant == IF classic_mode_of(m) THEN "Variant1" ELSE r.variant
         IN  add_entity(set_large_creature(m, fish_id),
                        BigFish_new_variant(fish_id, w, h, variant, r.dir, r.row))

\* random_object: r.spawner is the spawner the random index selected
random_object(m, w, h, r) ==
    IF has_large_creature(m) THEN m
    ELSE CASE r.spawner = "ship"        -> add_ship(m, w, h, r)
           [] r.spawner = "whale"       -> add_whale(m, w, h, r)
           [] r.spawner = "sea_monster" -> add_sea_monster(m, w, h, r)
           [] r.spawner = "big_fish"    -> add_big_fish(m, w, h, r)
           [] r.spawner = "shark"       -> add_shark(m, w, h, r)

\* shark_death: removes what get_entities_by_type("shark_teeth") reports under
\* e.id(), then random_object
shark_death(m, w, h, r) ==
    random_object(
        RemoveAll(m, {m.entities[k].id : k \in get_entities_by_type(m, "shark_teeth")}),
        w, h, r)

\* the draws of one large-creature spawn; a field a spawner does not read
\* holds a fixed filler
LargeDraws(h, classic) ==
    [spawner : {"ship", "whale", "sea_monster"}, dir : {"L", "R"},
     variant : {"Variant1"}, row : {9}]
    \cup {[spawner |-> "big_fish", dir |-> d, variant |-> v, row |-> y] :
            d \in {"L", "R"}, v \in BigFishVariants(classic),
            y \in BigFishRows(h, "Variant2")}
    \cup [spawner : {"shark"}, dir : {"L", "R"}, variant : {"Variant1"},
          row : SharkRows(h)]

SharkDraws(h) == [dir : {"L", "R"}, row : SharkRows(h)]

RECURSIVE AddFishes(_, _, _, _)
\* `for _ in 0..fish_count { add_fish(..) }` with the draws rs
AddFishes(m, w, h, rs) ==
    IF rs = <<>> THEN m
    ELSE AddFishes(add_fish(m, w, h, Head(rs)), w, h, Tail(rs))

RECURSIVE AddSeaweeds(_, _, _, _)
AddSeaweeds(m, w, h, rs) ==
    IF rs = <<>> THEN m
    ELSE AddSeaweeds(add_seaweed(m, w, h, Head(rs)), w, h, Tail(rs))

\* a fish_count over the whole screen, the 9 rows above the water included
FishTarget_whole_screen(w, h) == (h * w) \div FishPerArea

\* the fish_count of add_all_fish and target_fish_count of maybe_spawn_fish
FishTarget(w, h) == (SatSub(h, 9) * w) \div FishPerArea

\* the seaweed_count of add_all_seaweed and SeaweedManager::update_target_count
SeaweedTarget(w) == Max(w \div SeaweedPerWidth, 1)

\* add_all_fish with `for _ in 0..=fish_count`: one fish more, drawn like the first
add_all_fish_inclusive(m, w, h, rs) ==
    AddFishes(m, w, h,
              rs \o << IF rs = <<>> THEN CHOOSE r \in FishDraws(h, m.classic) : TRUE
                       ELSE Head(rs) >>)

\* add_all_fish
add_all_fish(m, w, h, rs) == AddFishes(m, w, h, rs)

\* add_all_seaweed
add_all_seaweed(m, w, h, rs) == AddSeaweeds(m, w, h, rs)

RECURSIVE AddLayers(_, _, _, _)
\* the layers start_id + layer_index for layer_index in from..3
AddLayers(m, start_id, from, w) ==
    IF from > 3 THEN m
    ELSE AddLayers(add_entity(m, WaterSurface_new(start_id + from, from, w)),
                   start_id, from + 1, w)

\* add_environment
add_environment(m, w, h) == AddLayers(m, get_next_id(m), 0, w)

\* add_castle
add_castle(m, w, h) == add_entity(m, Castle_new(get_next_id(m), w, h))

\* initialize_aquarium
initialize_aquarium(m, w, h, r) ==
    random_object(
        add_all_fish(
            add_all_seaweed(add_castle(add_environment(m, w, h), w, h), w, h, r.seaweed),
            w, h, r.fish),
        w, h, r.large)

InitDraws(w, h, classic) ==
    [seaweed : [1 .. SeaweedTarget(w) -> SeaweedDraws],
     fish : [1 .. FishTarget(w, h) -> FishDraws(h, classic)],
     large : LargeDraws(h, classic)]

-----------------------------------------------------------------------------
(* Sprite (src/src/entity.rs).  A sprite is [lines, color_mask]: lines is   *)
(* a sequence of lines and a line a sequence of characters; color_mask is   *)
(* [some, lines], some = FALSE for Option::None.  Columns and rows count    *)
(* from 0 as in the code.                                                   *)

\* TRANSPARENCY_CHARS: space, '?', the middle dot and the null character
TRANSPARENCY_CHARS == {" ", "?", "middot", "nul"}

\* Option<Vec<String>>
NoMask == [some |-> FALSE, lines |-> <<>>]
Mask(lines) == [some |-> TRUE, lines |-> lines]

\* Sprite::get_bounding_box: <<width, height>>
get_bounding_box(s) ==
    <<IF s.lines = <<>> THEN 0
      ELSE CHOOSE n \in {Len(s.lines[i]) : i \in DOMAIN s.lines} :
               \A i \in DOMAIN s.lines : Len(s.lines[i]) <= n,
      Len(s.lines)>>

\* Sprite::is_transparent_at
is_transparent_at(s, col, row) ==
    IF row >= Len(s.lines) THEN TRUE
    ELSE IF col >= Len(s.lines[row + 1]) THEN TRUE
    ELSE s.lines[row + 1][col + 1] \in TRANSPARENCY_CHARS

\* Sprite::get_char_at
get_char_at(s, col, row) ==
    IF row >= Len(s.lines) THEN " "
    ELSE IF col >= Len(s.lines[row + 1]) THEN " "
    ELSE s.lines[row + 1][col + 1]

\* the match of Sprite::get_color_at on a mask character; "None" is Option::None
MaskColor(c) ==
    CASE c \in {"R", "r", "1"} -> "Red"
      [] c \in {"G", "g", "2"} -> "Green"
      [] c \in {"B", "b", "4"} -> "Blue"
      [] c \in {"Y", "y", "3"} -> "Yellow"
      [] c \in {"M", "m", "5"} -> "Magenta"
      [] c \in {"C", "c", "6"} -> "Cyan"
      [] c \in {"W", "w", "7"} -> "White"
      [] OTHER -> "None"

\* Sprite::get_color_at
get_color_at(s, col, row) ==
    IF ~s.color_mask.some THEN "None"
    ELSE IF row >= Len(s.color_mask.lines) THEN "None"
    ELSE IF col >= Len(s.color_mask.lines[row + 1]) THEN "None"
    ELSE MaskColor(s.color_mask.lines[row + 1][col + 1])

\* Sprite::get_non_transparent_positions: the <<col, row>> of the characters
\* that are not in transparent_chars
get_non_transparent_positions(s) ==
    UNION {{<<i - 1, r - 1>> : i \in {j \in DOMAIN s.lines[r] :
                                        s.lines[r][j] \notin TRANSPARENCY_CHARS}} :
           r \in DOMAIN s.lines}

\* Entity::get_current_sprite of an entity that is told by its position, its
\* depth and its sprite alone
get_current_sprite(e) == e.variant

-----------------------------------------------------------------------------
(* Collisions (Entity::collides_with, EntityManager::check_collisions)      *)

\* Sprite::get_non_transparent_positions as runs <<row, first col, last col>>
\* of the sprites a fish or a shark can collide with
Runs(e) ==
    CASE e.type = "fish" /\ e.variant = "OldTiny" /\ e.dir = "R" ->
            {<<0, 2, 3>>, <<1, 0, 4>>, <<2, 3, 3>>}
      [] e.type = "fish" /\ e.variant = "OldTiny" /\ e.dir = "L" ->
            {<<0, 1, 2>>, <<1, 0, 4>>, <<2, 1, 1>>}
      [] e.type = "fish" /\ e.variant = "NewSmall1" /\ e.dir = "R" ->
            {<<0, 3, 3>>, <<1, 2, 2>>, <<1, 4, 4>>, <<2, 0, 5>>, <<3, 2, 4>>, <<4, 3, 3>>}
      [] e.type = "fish" /\ e.variant = "NewSmall1" /\ e.dir = "L" ->
            {<<0, 2, 2>>, <<1, 1, 1>>, <<1, 3, 3>>, <<2, 0, 5>>, <<3, 1, 3>>, <<4, 2, 2>>}
      [] e.type = "shark" /\ e.dir = "R" ->
            {<<1, 30, 31>>, <<2, 29, 29>>, <<2, 31, 32>>, <<3, 2, 2>>, <<3, 29, 29>>,
             <<3, 33, 34>>, <<4, 0, 1>>, <<4, 3, 4>>, <<4, 29, 29>>, <<4, 35, 38>>,
             <<5, 1, 1>>, <<5, 5, 6>>, <<5, 20, 28>>, <<5, 39, 46>>, <<6, 2, 3>>,
             <<6, 7, 19>>, <<6, 43, 44>>, <<6, 47, 51>>, <<7, 4, 4>>, <<7, 26, 29>>,
             <<7, 36, 38>>, <<7, 45, 46>>, <<7, 52, 52>>, <<8, 2, 13>>, <<8, 23, 25>>,
             <<8, 31, 51>>, <<9, 1, 3>>, <<9, 13, 14>>, <<9, 16, 49>>, <<10, 1, 1>>,
             <<10, 13, 15>>}
      [] e.type = "shark" /\ e.dir = "L" ->
            {<<1, 21, 22>>, <<2, 20, 21>>, <<2, 23, 23>>, <<3, 18, 19>>, <<3, 23, 23>>,
             <<3, 50, 50>>, <<4, 14, 17>>, <<4, 23, 23>>, <<4, 48, 49>>, <<4, 51, 52>>,
             <<5, 6, 13>>, <<5, 24, 32>>, <<5, 46, 47>>, <<5, 51, 51>>, <<6, 1, 5>>,
             <<6, 8, 9>>, <<6, 33, 45>>, <<6, 49, 50>>, <<7, 0, 0>>, <<7, 6, 7>>,
             <<7, 14, 16>>, <<7, 23, 26>>, <<7, 48, 48>>, <<8, 1, 21>>, <<8, 27, 29>>,
             <<8, 39, 50>>, <<9, 3, 36>>, <<9, 38, 39>>, <<9, 49, 51>>, <<10, 37, 39>>,
             <<10, 51, 51>>}
      [] e.type = "shark_teeth" -> {<<0, 0, 0>>}
      [] e.type = "glyph" ->
            {<<p[2], p[1], p[1]>> :
                p \in get_non_transparent_positions(get_current_sprite(e))}

\* Entity::collides_with: some non-transparent cell of both sprites falls on
\* the same screen cell
collides_with(a, b) ==
    \E ra \in Runs(a), rb \in Runs(b) :
        /\ ToScreen(a.y) + ra[1] = ToScreen(b.y) + rb[1]
        /\ ToScreen(a.x) + ra[2] <= ToScreen(b.x) + rb[3]
        /\ ToScreen(b.x) + rb[2] <= ToScreen(a.x) + ra[3]

\* the pairs of keys EntityManager::check_collisions compares
KeyPairs(m) == {p \in (DOMAIN m.entities) \X (DOMAIN m.entities) : p[1] # p[2]}

\* EntityManager::check_collisions
check_collisions(m) ==
    {p \in KeyPairs(m) : collides_with(m.entities[p[1]], m.entities[p[2]])}

\* the e.id() values of the stored entities of a type
IdsOfType(m, type) == {m.entities[k].id : k \in get_entities_by_type(m, type)}

\* the colliding pairs handle_shark_collisions acts on: one id of the pair is
\* the e.id() of a fish and one is the e.id() of a shark_teeth entity
BitePairs(m) ==
    {p \in KeyPairs(m) :
        /\ p[1] < p[2]
        /\ {p[1], p[2]} \cap IdsOfType(m, "fish") # {}
        /\ {p[1], p[2]} \cap IdsOfType(m, "shark_teeth") # {}
        /\ collides_with(m.entities[p[1]], m.entities[p[2]])}

\* App::handle_shark_collisions
handle_shark_collisions(m) ==
    LET bites == BitePairs(m)
        fish_to_remove ==
            {IF p[1] \in IdsOfType(m, "fish") THEN p[1] ELSE p[2] : p \in bites}
        teeth_to_remove ==
            {IF p[1] \in IdsOfType(m, "shark_teeth") THEN p[1] ELSE p[2] : p \in bites}
        sharks_to_remove == IF bites = {} THEN {} ELSE IdsOfType(m, "shark")
    IN  RemoveAll(RemoveAll(RemoveAll(m, fish_to_remove), teeth_to_remove),
                  sharks_to_remove)

-----------------------------------------------------------------------------
(* Animation (src/src/entity.rs).  Of the frames the model keeps how many   *)
(* there are; elapsed is last_frame_time.elapsed() in ms, saturated.        *)

\* Animation::new
Animation_new(frames, frame_duration, looping) ==
    [frames |-> frames, current_frame |-> 0, frame_duration |-> frame_duration,
     elapsed |-> 0, looping |-> looping]

\* Animation::advance_frame
\* an advance_frame that wraps around whether the animation loops or not
advance_frame_wrapping(a) ==
    IF a.current_frame + 1 >= a.frames
    THEN [a EXCEPT !.current_frame = 0]
    ELSE [a EXCEPT !.current_frame = @ + 1]

advance_frame(a) ==
    IF a.current_frame + 1 >= a.frames
    THEN IF a.looping THEN [a EXCEPT !.current_frame = 0] ELSE a
    ELSE [a EXCEPT !.current_frame = @ + 1]

\* an Animation::update that advances whether or not the frame is due
Animation_update_eager(a) ==
    IF a.frames <= 1 THEN a
    ELSE [advance_frame(a) EXCEPT !.elapsed = 0]

\* Animation::update
Animation_update(a) ==
    IF a.frames <= 1 THEN a
    ELSE IF a.elapsed >= a.frame_duration
         THEN [advance_frame(a) EXCEPT !.elapsed = 0]
         ELSE a

\* Animation::reset
Animation_reset(a) == [a EXCEPT !.current_frame = 0, !.elapsed = 0]

\* the animation of a state in which no animation is looked at
NoAnimation == Animation_new(0, 0, FALSE)

\* the entity of a state in which no entity is updated outside a manager
NoCreature == [Entity("none", NoId, 0, 0, 0, 0, 0, "N", "none") EXCEPT !.alive = FALSE]

-----------------------------------------------------------------------------
(* Rendering (Entity::render, EntityManager::render_all).  The buffer is a  *)
(* function from the cells <<x, y>> of its area to [ch, fg].                *)

BufferCells == (0 .. BufferWidth - 1) \X (0 .. BufferHeight - 1)

\* Buffer::empty
Buffer_empty == [c \in BufferCells |-> [ch |-> " ", fg |-> "Reset"]]

\* the cells of a row as App::render_water_surface leaves them: the first
\* segment holds no other character than '~'
Buffer_water == [c \in BufferCells |-> [ch |-> "~", fg |-> "Cyan"]]

\* u16::saturating_add
SatAdd(a, b) == Min(a + b, 65535)

\* the <<col, row>> of the characters of the sprite of e that the loop of
\* Entity::render reaches at the cell c of the buffer, whatever they are
Reaching(e, c, w, h) ==
    {p \in UNION {{<<i - 1, r - 1>> : i \in DOMAIN get_current_sprite(e).lines[r]} :
                      r \in DOMAIN get_current_sprite(e).lines} :
        /\ SatAdd(ToScreen(e.x), p[1]) = c[1]
        /\ SatAdd(ToScreen(e.y), p[2]) = c[2]
        /\ c[1] < w
        /\ c[2] < h}

\* the <<col, row>> of the characters that Entity::render paints at the cell c
Painting(e, c, w, h) ==
    {p \in Reaching(e, c, w, h) : ~is_transparent_at(get_current_sprite(e), p[1], p[2])}

\* the cell after the character at <<col, row>> = p was painted on it
Painted(cell, e, p) ==
    [ch |-> get_current_sprite(e).lines[p[2] + 1][p[1] + 1],
     fg |-> IF get_color_at(get_current_sprite(e), p[1], p[2]) # "None"
            THEN get_color_at(get_current_sprite(e), p[1], p[2])
            ELSE cell.fg]

\* Entity::render
\* a render that paints the transparent characters as well
render_opaque(e, buf, w, h) ==
    [c \in DOMAIN buf |->
        IF Reaching(e, c, w, h) = {} THEN buf[c]
        ELSE Painted(buf[c], e, CHOOSE p \in Reaching(e, c, w, h) : TRUE)]

render(e, buf, w, h) ==
    [c \in DOMAIN buf |->
        IF Painting(e, c, w, h) = {} THEN buf[c]
        ELSE Painted(buf[c], e, CHOOSE p \in Painting(e, c, w, h) : TRUE)]

RECURSIVE RenderLayer(_, _, _, _, _)
\* `for &entity_id in entity_ids { entity.render(buffer, screen_bounds) }`
RenderLayer(m, buf, entity_ids, w, h) ==
    IF entity_ids = <<>> THEN buf
    ELSE RenderLayer(m,
                     IF Head(entity_ids) \in DOMAIN m.entities
                     THEN render(m.entities[Head(entity_ids)], buf, w, h)
                     ELSE buf,
                     Tail(entity_ids), w, h)

RECURSIVE RenderDepths(_, _, _, _, _, _)
\* `for depth in depths { .. }` over the depths sorted in descending order,
\* or in ascending order
RenderDepths(m, buf, depths, descending, w, h) ==
    IF depths = {} THEN buf
    ELSE LET depth == CHOOSE d \in depths :
                          \A o \in depths : IF descending THEN o <= d ELSE o >= d
         IN  RenderDepths(m, RenderLayer(m, buf, m.depth_layers[depth], w, h),
                          depths \ {depth}, descending, w, h)

\* EntityManager::render_all
\* a render_all that paints the foreground first
render_all_ascending(m, buf, w, h) ==
    RenderDepths(m, buf, DOMAIN m.depth_layers, FALSE, w, h)

render_all(m, buf, w, h) ==
    RenderDepths(m, buf, DOMAIN m.depth_layers, TRUE, w, h)

-----------------------------------------------------------------------------
(* App (src/src/app.rs).  The steps of App::tick are functions from the app *)
(* value to the set of app values the step's random draws can lead to.      *)

\* rng.gen_range(-0.1..0.1) of Bubble::new, thousandths of a cell per frame
BubbleDrifts == {0}

\* Bubble::new
Bubble_new(id, x, y, depth, drift) ==
    Entity("bubble", id, x, y, depth, drift, -1000, "N", "bubble")

\* Bubble::from_fish_position
Bubble_from_fish_position(id, fish, width, fish_moving_right, drift) ==
    Bubble_new(id,
               IF fish_moving_right THEN fish.x + Cells(width) ELSE fish.x,
               fish.y + Cells(1), SatSub(fish.depth, 1), drift)

\* what the trace keeps of the update_all of the last tick
NoUpdate == [died |-> {}, cb |-> {}, added |-> 0, fish_before |-> 0,
             fish_after |-> 0, large_after |-> 0, teeth_after |-> 0]

\* the kinds of entity a tick spawns when a timer of the app has run out
TimedKinds == {"fish", "seaweed", "shark"}

\* the interval (ms) of the timer that gates the spawn of a kind
SpawnInterval(kind) ==
    CASE kind = "fish" -> FishSpawnIntervalMs
      [] kind = "seaweed" -> SeaweedSpawnIntervalMs
      [] kind = "shark" -> SharkSpawnIntervalMs

\* no spawn of the kind has happened yet
Never == 0 - 1

\* the keys of a kind that the manager m stores and the current state does not
Spawned(m, kind) == {k \in DOMAIN m.entities \ DOMAIN entities : m.entities[k].type = kind}

\* what the trace keeps of the handle_shark_collisions of the last tick
NoBite == [bitten |-> {}, sharks |-> {}, removed |-> {},
           spawned |-> [kind \in TimedKinds |-> {}]]

LargeKeys(m) == {k \in DOMAIN m.entities : m.entities[k].type \in LargeTypes}

\* the app value of the current state
TheApp ==
    [m |-> Mgr, water_initialized |-> water_initialized,
     castle_created |-> castle_created, fish_timer |-> fish_timer,
     bubble_timer |-> bubble_timer, seaweed_timer |-> seaweed_timer,
     shark_timer |-> shark_timer, upd |-> NoUpdate, spawn |-> <<>>, bite |-> NoBite]

\* the Instant::now() of a tick is delta_time later than that of the last
Elapse(a, dt) ==
    [a EXCEPT !.fish_timer = Saturate(@ + dt, FishSpawnIntervalMs),
              !.bubble_timer = Min(@ + dt, BubbleSpawnIntervalMs),
              !.seaweed_timer = Saturate(@ + dt, SeaweedSpawnIntervalMs),
              !.shark_timer = Saturate(@ + dt, SharkSpawnIntervalMs)]

\* App::maybe_initialize_water_surface, with WaterSurfaceManager::initialize
\* building the layers start_id .. start_id + 3
maybe_initialize_water_surface(a, w, h) ==
    IF ~a.water_initialized /\ w > 0 /\ h > 0
    THEN [a EXCEPT !.m = AddLayers(a.m, get_next_id(a.m), 0, w),
                   !.water_initialized = TRUE]
    ELSE a

\* the keys of the dead entities whose death callback update_all invokes: its
\* loop over dead_entities calls remove_entity and nothing else
InvokedCallbacks(m, dt, w, h) == {}

\* an update_all call, and what the trace keeps of it: the key, type and
\* death callback of every entity that died, the callbacks invoked, the ids
\* handed out, and the fish and large creatures stored before and after
TickUpdate(a, dt, w, h) ==
    LET after == update_all(a.m, dt, w, h)
    IN  [a EXCEPT !.m = after,
                  !.upd = [died |-> {<<k, a.m.entities[k].type,
                                       DeathCallback(a.m.entities[k])>> :
                                        k \in DeadEntities(a.m, dt, w, h)},
                           cb |-> InvokedCallbacks(a.m, dt, w, h),
                           added |-> after.next_id - a.m.next_id,
                           fish_before |-> Cardinality(get_entities_by_type(a.m, "fish")),
                           fish_after |-> Cardinality(get_entities_by_type(after, "fish")),
                           large_after |-> Cardinality(LargeKeys(after)),
                           teeth_after |->
                               Cardinality(get_entities_by_type(after, "shark_teeth"))]]

\* App::maybe_spawn_fish.  The call passes no classic flag to Fish::new_random:
\* every species can be drawn.
maybe_spawn_fish(a, w, h) ==
    IF /\ Cardinality(get_entities_by_type(a.m, "fish")) < FishTarget(w, h)
       /\ a.fish_timer > FishSpawnIntervalMs
    THEN {[a EXCEPT !.m = add_entity(a.m, Fish_new_random(get_next_id(a.m), w, h, FALSE, r)),
                    !.fish_timer = 0] : r \in FishDraws(h, FALSE)}
    ELSE {a}

\* App::maybe_spawn_bubbles
maybe_spawn_bubbles(a) ==
    IF a.bubble_timer < BubbleSpawnIntervalMs THEN {a}
    ELSE IF get_entities_by_type(a.m, "fish") = {} THEN {a}
    ELSE {a} \cup
         {[a EXCEPT !.m = add_entity(a.m,
                        Bubble_from_fish_position(
                            get_next_id(a.m), a.m.entities[k],
                            FishBox(a.m.entities[k].variant, a.m.entities[k].dir)[1],
                            a.m.entities[k].x < Cells(40), drift)),
                    !.bubble_timer = 0] :
            k \in get_entities_by_type(a.m, "fish"), drift \in BubbleDrifts}

\* should_spawn_seaweed without "self.last_spawn = now"
maybe_spawn_seaweed_keeping_timer(a, w, h) ==
    IF /\ Cardinality(get_entities_by_type(a.m, "seaweed")) < SeaweedTarget(w)
       /\ a.seaweed_timer > SeaweedSpawnIntervalMs
    THEN {[a EXCEPT !.m = add_entity(a.m, Seaweed_new_random(get_next_id(a.m), w, h, r))] :
            r \in SeaweedDraws}
    ELSE {a}

\* App::maybe_spawn_seaweed with SeaweedManager::should_spawn_seaweed
maybe_spawn_seaweed(a, w, h) ==
    IF /\ Cardinality(get_entities_by_type(a.m, "seaweed")) < SeaweedTarget(w)
       /\ a.seaweed_timer > SeaweedSpawnIntervalMs
    THEN {[a EXCEPT !.m = add_entity(a.m, Seaweed_new_random(get_next_id(a.m), w, h, r)),
                    !.seaweed_timer = 0] : r \in SeaweedDraws}
    ELSE {a}

\* App::maybe_spawn_castle on a screen that keeps its size: the castle
\* manager asks for one castle until it is marked created
maybe_spawn_castle(a, w, h) ==
    IF ~a.castle_created
    THEN [a EXCEPT !.m = add_entity(a.m, Castle_new(get_next_id(a.m), w, h)),
                   !.castle_created = TRUE]
    ELSE a

\* a maybe_spawn_shark whose should_spawn_shark always answers false
maybe_spawn_shark_never(a, w, h) == {a}

\* App::maybe_spawn_shark with SharkManager::should_spawn_shark
maybe_spawn_shark(a, w, h) ==
    IF a.shark_timer > SharkSpawnIntervalMs
    THEN {[a EXCEPT !.m = add_entity(add_entity(a.m, SharkPair(a.m, w, h, r)[1]),
                                     SharkPair(a.m, w, h, r)[2]),
                    !.shark_timer = 0,
                    !.spawn = <<a.m.next_id, a.m.next_id + 1>>] :
            r \in SharkDraws(h)}
    ELSE {a}

\* the pairs <<fish key, teeth key>> of stored entities that collide
FishTeethCollisions(m) ==
    {p \in get_entities_by_type(m, "fish") \X get_entities_by_type(m, "shark_teeth") :
        collides_with(m.entities[p[1]], m.entities[p[2]])}

\* the handle_shark_collisions call of a tick, and what the trace keeps of
\* it: the fish and teeth that collided and the sharks stored when it was
\* called, the keys it removed, and the fish, seaweed and sharks the tick
\* had stored by then
Bitten(a) ==
    LET after == handle_shark_collisions(a.m)
    IN  [a EXCEPT !.m = after,
                  !.bite = [bitten |-> FishTeethCollisions(a.m),
                            sharks |-> get_entities_by_type(a.m, "shark"),
                            removed |-> DOMAIN a.m.entities \ DOMAIN after.entities,
                            spawned |-> [kind \in TimedKinds |-> Spawned(a.m, kind)]]]

\* App::tick while not paused
tick(a, dt, w, h) ==
    LET s1 == TickUpdate(maybe_initialize_water_surface(Elapse(a, dt), w, h), dt, w, h)
        s2 == maybe_spawn_fish(s1, w, h)
        s3 == UNION {maybe_spawn_bubbles(x) : x \in s2}
        s4 == UNION {maybe_spawn_seaweed(x, w, h) : x \in s3}
        s5 == {maybe_spawn_castle(x, w, h) : x \in s4}
        s6 == UNION {maybe_spawn_shark(x, w, h) : x \in s5}
    IN  {Bitten(x) : x \in s6}

-----------------------------------------------------------------------------
(* The state machine *)

\* the trace of an operation on the manager: its name, its argument, what it
\* returned, what get_next_id returned if that was the operation before it,
\* what its update_all did, the keys under which add_entity stored the
\* shark and the teeth it spawned, and the time (ms, saturating) between the
\* last tick that spawned an entity of each timed kind and this operation
Trace(op, arg, ret, a) ==
    [op |-> op, arg |-> arg, ret |-> ret,
     peeked |-> IF last.op = "get_next_id" THEN last.ret ELSE NoId,
     upd |-> a.upd, spawn |-> a.spawn, bite |-> a.bite,
     since |-> [kind \in TimedKinds |->
                   IF op # "tick" THEN last.since[kind]
                   ELSE IF a.bite.spawned[kind] # {} THEN 0
                   ELSE IF last.since[kind] = Never THEN Never
                   ELSE Saturate(last.since[kind] + arg, SpawnInterval(kind))]]

\* the next state holds the app value a
Becomes(a) ==
    /\ entities' = a.m.entities
    /\ depth_layers' = a.m.depth_layers
    /\ next_id' = a.m.next_id
    /\ large_creature_id' = a.m.slot
    /\ classic_mode' = a.m.classic
    /\ id_log' = a.m.log
    /\ water_initialized' = a.water_initialized
    /\ castle_created' = a.castle_created
    /\ fish_timer' = a.fish_timer
    /\ bubble_timer' = a.bubble_timer
    /\ seaweed_timer' = a.seaweed_timer
    /\ shark_timer' = a.shark_timer

\* App::default; the manager is built for classic mode or not
InitApp ==
    /\ \E classic \in BOOLEAN :
          /\ entities = EntityManager_new(classic).entities
          /\ depth_layers = EntityManager_new(classic).depth_layers
          /\ next_id = EntityManager_new(classic).next_id
          /\ large_creature_id = EntityManager_new(classic).slot
          /\ classic_mode = classic
    /\ id_log = <<>>
    /\ ticks = 0
    /\ calls = 0
    /\ paused = FALSE
    /\ water_initialized = FALSE
    /\ castle_created = FALSE
    /\ fish_timer = 0
    /\ bubble_timer = 0
    /\ seaweed_timer = 0
    /\ shark_timer = 0
    /\ last = [op |-> "new", arg |-> 0, ret |-> 0, peeked |-> NoId,
               upd |-> NoUpdate, spawn |-> <<>>, bite |-> NoBite,
               since |-> [kind \in TimedKinds |-> Never]]

\* the app, with an empty buffer, no animation and no entity outside the manager
Init ==
    /\ InitApp
    /\ buffer = Buffer_empty
    /\ animation = NoAnimation
    /\ creature = NoCreature

\* initialize_aquarium on a manager that holds nothing yet
InitializeAquarium ==
    /\ entities = <<>>
    /\ next_id = FirstId
    /\ \E r \in InitDraws(ScreenWidth, ScreenHeight, classic_mode) :
          LET m == initialize_aquarium(Mgr, ScreenWidth, ScreenHeight, r)
              a == [TheApp EXCEPT !.m = m,
                                  !.spawn = IF r.large.spawner = "shark"
                                            THEN <<m.log[Len(m.log) - 1], m.log[Len(m.log)]>>
                                            ELSE <<>>]
          IN  /\ Becomes(a)
              /\ last' = Trace("initialize_aquarium", 0, 0, a)
    /\ UNCHANGED <<paused, ticks, calls, unitVars>>

\* App::tick.  While paused it returns at once and nothing changes.
Tick ==
    \E dt \in DeltaTimes :
        IF paused
        THEN UNCHANGED vars
        ELSE /\ ticks + calls < MaxOps
             /\ ticks' = ticks + 1
             /\ \E a \in tick(TheApp, dt, ScreenWidth, ScreenHeight) :
                    /\ Becomes(a)
                    /\ last' = Trace("tick", dt, 0, a)
             /\ UNCHANGED <<paused, calls, unitVars>>

\* App::toggle_pause
TogglePause ==
    /\ paused' = ~paused
    /\ UNCHANGED <<mgrVars, id_log, ticks, calls, last, water_initialized, castle_created,
                   fish_timer, bubble_timer, seaweed_timer, shark_timer, unitVars>>

\* App::redraw.  The bubble timer is not reset.
Redraw ==
    /\ Becomes([TheApp EXCEPT !.m = EntityManager_new(classic_mode),
                              !.fish_timer = 0, !.water_initialized = FALSE,
                              !.seaweed_timer = 0, !.castle_created = FALSE,
                              !.shark_timer = 0])
    /\ last' = Trace("redraw", 0, 0, TheApp)
    /\ UNCHANGED <<paused, ticks, calls, unitVars>>

Next == InitializeAquarium \/ Tick \/ TogglePause \/ Redraw

Spec == Init /\ [][Next]_vars

-----------------------------------------------------------------------------
(* The manager and the spawning functions called directly, between ticks *)

\* the next state of the app after a direct call that led to the app value a
Recorded(a, op, arg, ret) ==
    /\ ticks + calls < MaxOps
    /\ calls' = calls + 1
    /\ Becomes(a)
    /\ last' = Trace(op, arg, ret, a)
    /\ UNCHANGED <<paused, ticks>>

\* the next state after a direct call that led to the app value a
Called(a, op, arg, ret) ==
    /\ Recorded(a, op, arg, ret)
    /\ UNCHANGED unitVars

\* the app value with the manager m
With(m) == [TheApp EXCEPT !.m = m]

\* add_fish
AddFish ==
    \E r \in FishDraws(ScreenHeight, classic_mode) :
        Called(With(add_fish(Mgr, ScreenWidth, ScreenHeight, r)), "add_fish", 0, 0)

\* random_object
RandomObject ==
    \E r \in LargeDraws(ScreenHeight, classic_mode) :
        Called(With(random_object(Mgr, ScreenWidth, ScreenHeight, r)),
               "random_object", 0, 0)

\* add_shark
AddShark ==
    \E r \in SharkDraws(ScreenHeight) :
        LET m == add_shark(Mgr, ScreenWidth, ScreenHeight, r)
        IN  Called([With(m) EXCEPT !.spawn =
                       IF m.next_id = next_id THEN <<>>
                       ELSE <<m.log[Len(m.log) - 1], m.log[Len(m.log)]>>],
                   "add_shark", 0, 0)

\* add_ship, add_whale, add_sea_monster and add_big_fish, each called directly
AddLarge ==
    \E r \in LargeDraws(ScreenHeight, classic_mode) :
        /\ r.spawner # "shark"
        /\ CASE r.spawner = "ship" ->
                  Called(With(add_ship(Mgr, ScreenWidth, ScreenHeight, r)), "add_ship", 0, 0)
             [] r.spawner = "whale" ->
                  Called(With(add_whale(Mgr, ScreenWidth, ScreenHeight, r)), "add_whale", 0, 0)
             [] r.spawner = "sea_monster" ->
                  Called(With(add_sea_monster(Mgr, ScreenWidth, ScreenHeight, r)),
                         "add_sea_monster", 0, 0)
             [] r.spawner = "big_fish" ->
                  Called(With(add_big_fish(Mgr, ScreenWidth, ScreenHeight, r)),
                         "add_big_fish", 0, 0)

\* EntityManager::remove_entity, with ids that are stored, that were removed
\* and that were never handed out.  It returns nothing: ret tells whether
\* the id was stored when it was called.
RemoveEntity ==
    \E id \in 0 .. next_id :
        Called(With(remove_entity(Mgr, id)), "remove_entity", id,
               IF id \in DOMAIN entities THEN 1 ELSE 0)

\* EntityManager::update_all
UpdateAll ==
    \E dt \in DeltaTimes :
        Called(TickUpdate(TheApp, dt, ScreenWidth, ScreenHeight), "update_all", dt, 0)

\* EntityManager::get_next_id
GetNextId == Called(TheApp, "get_next_id", 0, get_next_id(Mgr))

\* the manager and the spawning functions alone
NextManager ==
    \/ AddFish
    \/ RandomObject
    \/ AddShark
    \/ AddLarge
    \/ RemoveEntity
    \/ UpdateAll
    \/ GetNextId

SpecManager == Init /\ [][NextManager]_vars

\* direct calls between the ticks of the app
NextApi ==
    \/ Tick
    \/ AddFish
    \/ RandomObject
    \/ AddShark
    \/ RemoveEntity
    \/ UpdateAll
    \/ GetNextId

SpecApi == Init /\ [][NextApi]_vars

-----------------------------------------------------------------------------
(* Sprites, collisions and rendering of entities that are told by their     *)
(* position, depth and sprite alone                                         *)

SpriteA == [lines |-> << <<"a">> >>, color_mask |-> Mask(<< <<"R">> >>)]
SpriteB == [lines |-> << <<"b">> >>, color_mask |-> NoMask]
\* a transparent character between two others; the mask is shorter than the line
SpriteGap == [lines |-> << <<"c", "?", "d">> >>, color_mask |-> Mask(<< <<"G">> >>)]
\* lines of different lengths; the mask holds a character that is no color
\* and, as the mask of Castle::create_castle_sprite, one line more than the art
SpriteRagged ==
    [lines |-> << <<" ", "e">>, <<"f">> >>,
     color_mask |-> Mask(<< <<"x", "B">>, <<"7">>, <<"y">> >>)]

\* the entities the model draws: at the origin, left of the left edge, at
\* fractional coordinates, above the top edge
GlyphDrawn ==
    {[x |-> 0, y |-> 0, depth |-> 3, sprite |-> SpriteA],
     [x |-> 0, y |-> 0, depth |-> 2, sprite |-> SpriteB],
     [x |-> Cells(-1), y |-> 0, depth |-> 3, sprite |-> SpriteB],
     [x |-> 500, y |-> 500, depth |-> 2, sprite |-> SpriteA],
     [x |-> 1500, y |-> 0, depth |-> 2, sprite |-> SpriteGap],
     [x |-> 0, y |-> -500, depth |-> 8, sprite |-> SpriteRagged]}

Glyph(id, g) == Entity("glyph", id, g.x, g.y, g.depth, 0, 0, "N", g.sprite)

\* the screen_bounds a render is called with: the area of the buffer, and a
\* screen that is narrower and taller than the buffer
RenderBounds == {<<BufferWidth, BufferHeight>>, <<BufferWidth - 1, BufferHeight + 1>>}

\* the <<col, row>> the sprite functions are asked about
ProbeCells == (0 .. 3) \X (0 .. 2)

\* EntityManager::add_entity with such an entity
AddGlyph ==
    /\ Cardinality(DOMAIN entities) < MaxGlyphs
    /\ \E g \in GlyphDrawn :
           Called(With(add_entity(Mgr, Glyph(get_next_id(Mgr), g))),
                  "add_entity", 0, get_next_id(Mgr))

\* Entity::render of a stored entity
Render ==
    \E k \in DOMAIN entities, b \in RenderBounds :
        /\ Recorded(TheApp, "render", <<k, b[1], b[2]>>, 0)
        /\ buffer' = render(entities[k], buffer, b[1], b[2])
        /\ UNCHANGED <<animation, creature>>

\* EntityManager::render_all
RenderAll ==
    \E b \in RenderBounds :
        /\ Recorded(TheApp, "render_all", b, 0)
        /\ buffer' = render_all(Mgr, buffer, b[1], b[2])
        /\ UNCHANGED <<animation, creature>>

\* Sprite::get_char_at, Sprite::is_transparent_at and Sprite::get_color_at of
\* the sprite of a stored entity
SpriteAt ==
    \E k \in DOMAIN entities, c \in ProbeCells :
        Called(TheApp, "sprite_at", <<k, c[1], c[2]>>,
               <<get_char_at(get_current_sprite(entities[k]), c[1], c[2]),
                 is_transparent_at(get_current_sprite(entities[k]), c[1], c[2]),
                 get_color_at(get_current_sprite(entities[k]), c[1], c[2])>>)

\* EntityManager::check_collisions
CheckCollisions == Called(TheApp, "check_collisions", 0, check_collisions(Mgr))

NextGlyphs ==
    \/ AddGlyph
    \/ Render
    \/ RenderAll
    \/ SpriteAt
    \/ CheckCollisions

\* the app before a frame is rendered: the buffer is empty or holds the water
InitGlyphs ==
    /\ InitApp
    /\ buffer \in {Buffer_empty, Buffer_water}
    /\ animation = NoAnimation
    /\ creature = NoCreature

SpecGlyphs == InitGlyphs /\ [][NextGlyphs]_vars

-----------------------------------------------------------------------------
(* Properties *)

Range(f) == {f[x] : x \in DOMAIN f}

\* the keys of the large creatures in an entity map
LargeStored(ents) == {k \in DOMAIN ents : ents[k].type \in LargeTypes}

\* the types whose death callback is random_object according to C5
ReplacedTypes == {"ship", "whale", "sea_monster", "big_fish_1", "big_fish_2"}

\* C1: in every state reachable from initialize_aquarium by ticks, timer
\* spawns and collision removals, at most one entity of the kinds ship, whale,
\* sea_monster, big_fish, shark is stored in the manager.
C1_AtMostOneLargeCreature == Cardinality(LargeStored(entities)) <= 1

\* the case of C1: a large creature of initialize_aquarium is stored when the
\* shark timer fires
C1_TimerSharkBesideLargeCreature ==
    /\ last.op = "tick"
    /\ last.spawn # <<>>
    /\ \E k \in LargeStored(entities) : k < last.spawn[1]

\* C2: two random_object calls back-to-back never result in two stored large
\* creatures, and the second call, finding the slot occupied, spawns nothing.
C2_BackToBackRandomObject ==
    [][(last.op = "random_object" /\ last'.op = "random_object" /\ calls' = calls + 1)
         => /\ Cardinality(LargeStored(entities')) <= 1
            /\ entities' = entities]_vars

\* the case of C2: random_object has been called twice and the shark of the
\* shark timer is stored beside the creature of the first call
C2_TwoCallsAfterTimerShark ==
    /\ last.op = "random_object"
    /\ calls = 2
    /\ Cardinality(LargeStored(entities)) = 2

\* C3: during update_all the death callback of every entity that reports dead
\* and carries one is invoked (once, before the entity is removed).
C3_DeathCallbackInvoked ==
    \A d \in last.upd.died : d[3] # "none" => d[1] \in last.upd.cb

\* the case of C3: an entity with a death callback died in update_all
C3_CallbackCarrierDied == \E d \in last.upd.died : d[3] # "none"

\* C4: after update_all neither the entity map nor the depth index holds an
\* entity that reported dead during it.
C4_DeadRemovedInSameTick ==
    \A d \in last.upd.died :
        /\ d[1] \notin DOMAIN entities
        /\ \A depth \in DOMAIN depth_layers : d[1] \notin Range(depth_layers[depth])

\* the case of C4: entities died in an update_all that left others of a
\* depth layer stored
C4_SomeDiedSomeStayed ==
    /\ Cardinality(last.upd.died) >= 2
    /\ entities # <<>>
    /\ \E depth \in DOMAIN depth_layers : Len(depth_layers[depth]) >= 2

\* C5: when a ship, whale, sea monster or big fish dies in update_all, its
\* death callback random_object spawns a replacement, so exactly one large
\* creature is stored after it.
C5_DeadLargeCreatureReplaced ==
    (\E d \in last.upd.died : d[2] \in ReplacedTypes) => last.upd.large_after = 1

\* the case of C5: a ship, whale, sea monster or big fish died in update_all
C5_LargeCreatureDied == \E d \in last.upd.died : d[2] \in ReplacedTypes

\* C6: when update_all removes a fish that swam off-screen, the fish's death
\* callback add_fish adds a new fish: no fewer fish are stored after
\* update_all than before.
C6_FishCountNotLower ==
    (\E d \in last.upd.died : d[2] = "fish")
        => last.upd.fish_after >= last.upd.fish_before

\* the case of C6: a fish died in update_all
C6_FishDied == \E d \in last.upd.died : d[2] = "fish"

\* C7: under any interleaving of add_entity, remove_entity and update_all,
\* every add_entity returns an id strictly greater than every id returned
\* before, so a removed id is never handed out again.
C7_IdsStrictlyIncreasing ==
    \A i, j \in DOMAIN id_log : i < j => id_log[i] < id_log[j]

\* the case of C7: an id was handed out after an earlier one had been removed
C7_AddedAfterRemoval ==
    /\ last.op = "add_fish"
    /\ \E i \in DOMAIN id_log : i < Len(id_log) /\ id_log[i] \notin DOMAIN entities

\* C8: remove_entity leaves the id not stored, and on an id that is not stored
\* (never added, or already removed) it changes neither the entity map nor the
\* depth index nor the id counter; so a second remove_entity(id) changes nothing.
C8_RemoveAbsentIsNoOp ==
    [][(calls' = calls + 1 /\ last'.op = "remove_entity")
         => /\ last'.arg \notin DOMAIN entities'
            /\ last'.arg \notin DOMAIN entities
                 => UNCHANGED <<entities, depth_layers, next_id>>]_vars

\* the case of C8: remove_entity was called on an id that had been handed
\* out and was no longer stored
C8_RemovedIdRemovedAgain ==
    /\ last.op = "remove_entity"
    /\ last.ret = 0
    /\ last.arg \in Range(id_log)

\* C9: get_next_id changes no manager state, consecutive calls return the same
\* value, and that value is the id the next add_entity returns.
C9_GetNextIdPeeks ==
    [][/\ (calls' = calls + 1 /\ last'.op = "get_next_id")
            => /\ UNCHANGED <<entities, depth_layers, next_id, large_creature_id, id_log>>
               /\ last.op = "get_next_id" => last'.ret = last.ret
       /\ (last.op = "get_next_id" /\ Len(id_log') > Len(id_log))
            => id_log'[Len(id_log) + 1] = last.ret]_vars

\* the case of C9: an entity was added right after get_next_id had been
\* called on a manager that had handed out ids before
C9_AddedAfterPeek ==
    /\ last.op = "add_fish"
    /\ last.peeked > FirstId
    /\ last.peeked = id_log[Len(id_log)]

\* C10: after a shark spawn the shark's stored teeth id is the key under which
\* its teeth are stored, the teeth's stored shark id is the key under which
\* the shark is stored, and the two ids differ.
C10_SharkAndTeethLinked ==
    (/\ last.spawn # <<>>
     /\ last.spawn[1] \in DOMAIN entities
     /\ last.spawn[2] \in DOMAIN entities)
        => /\ entities[last.spawn[1]].teeth_id = last.spawn[2]
           /\ entities[last.spawn[2]].shark_id = last.spawn[1]
           /\ entities[last.spawn[1]].teeth_id # entities[last.spawn[2]].shark_id

\* the case of C10: the shark and the teeth of the last spawn are stored
C10_SharkSpawned ==
    /\ last.spawn # <<>>
    /\ last.spawn[1] \in DOMAIN entities
    /\ last.spawn[2] \in DOMAIN entities
    /\ entities[last.spawn[1]].type = "shark"
    /\ entities[last.spawn[2]].type = "shark_teeth"

-----------------------------------------------------------------------------
\* C11: when a shark dies in update_all, no shark_teeth entity is stored after
\* that update_all and a new large creature has been spawned by it
C11_SharkDeathPurgesAndReplaces ==
    (\E d \in last.upd.died : d[2] = "shark") =>
        /\ last.upd.teeth_after = 0
        /\ last.upd.added >= 1
        /\ last.upd.large_after >= 1

\* the case of C11: a shark left the screen and was reported dead by update_all
C11_SharkDied == \E d \in last.upd.died : d[2] = "shark"

-----------------------------------------------------------------------------
\* C12: handle_shark_collisions removes, for every colliding pair of a fish
\* and a shark_teeth entity, that fish and that teeth, and every stored shark
\* if there is such a pair; it removes nothing else
C12_BiteResolution ==
    last.bite.removed =
        {p[1] : p \in last.bite.bitten} \cup {p[2] : p \in last.bite.bitten}
            \cup (IF last.bite.bitten = {} THEN {} ELSE last.bite.sharks)

\* the case of C12: handle_shark_collisions removed something
C12_SomethingBitten == last.op = "tick" /\ last.bite.removed # {}

-----------------------------------------------------------------------------
(* An animation on its own: time passes, update and reset are called *)

\* frame_duration (ms) of the animations of Bubble::new and WaterSurface::new
FrameDurations == {200, 800}

\* the time (ms) that passes between two calls
Waits == {100, 250}

\* Animation::new with 1 .. MaxFrames frames
InitAnimation ==
    /\ InitApp
    /\ buffer = Buffer_empty
    /\ \E n \in 1 .. MaxFrames, d \in FrameDurations, looping \in BOOLEAN :
           animation = Animation_new(n, d, looping)
    /\ creature = NoCreature

\* the next state after a call on the animation that led to the animation a
AnimationBecomes(a, op, arg, ret) ==
    /\ animation' = a
    /\ last' = [last EXCEPT !.op = op, !.arg = arg, !.ret = ret]
    /\ UNCHANGED <<mgrVars, appVars, id_log, ticks, calls, buffer, creature>>

\* Animation::update, called wait ms after the previous call; it returns
\* nothing, the state keeps the frame before the call and whether a frame
\* was due
AnimationUpdate ==
    \E wait \in Waits :
        LET a == [animation EXCEPT !.elapsed = Saturate(@ + wait, animation.frame_duration)]
        IN  AnimationBecomes(Animation_update(a), "animation_update", wait,
                             <<animation.current_frame, a.elapsed >= a.frame_duration>>)

\* Animation::reset
AnimationReset ==
    AnimationBecomes(Animation_reset(animation), "animation_reset", 0, 0)

NextAnimation ==
    \/ AnimationUpdate
    \/ AnimationReset

SpecAnimation == InitAnimation /\ [][NextAnimation]_vars

-----------------------------------------------------------------------------
(* One entity on its own, updated at 60 ticks per second *)

\* delta_time (ms) of a tick at 60 ticks per second: 16.67 ms
FrameTimes == {16, 17}

\* horizontal_drift of Bubble::new: rng.gen_range(-0.1..0.1), thousandths of a
\* cell per frame
CreatureDrifts == {-100, 0, 99}

\* the entities the model draws: a bubble created at y = 15, on the screen or,
\* as in front of a right-facing fish that is leaving, right of it; and the
\* fish of Fish::new_random, facing right (even id) or left
CreatureDrawn ==
    {Bubble_new(1, x, Cells(15), DepthFishStart, drift) :
        x \in {Cells(10), Cells(ScreenWidth + 8)}, drift \in CreatureDrifts}
    \cup {Fish_new_random(id, ScreenWidth, ScreenHeight, FALSE, r) :
             id \in {1, 2}, r \in FishDraws(ScreenHeight, FALSE)}

InitCreature ==
    /\ InitApp
    /\ buffer = Buffer_empty
    /\ animation = NoAnimation
    /\ creature \in CreatureDrawn

\* Entity::update of the entity with the delta_time of a tick; an entity that
\* is not alive is not updated again (update_all has removed it)
CreatureUpdate ==
    /\ creature.alive
    /\ \E dt \in FrameTimes :
           /\ creature' = EntityUpdate(creature, dt, ScreenWidth, ScreenHeight)
           /\ last' = [last EXCEPT !.op = "update", !.arg = dt, !.ret = creature.alive]
    /\ ticks' = ticks + 1
    /\ UNCHANGED <<mgrVars, appVars, id_log, calls, buffer, animation>>

NextCreature == CreatureUpdate

\* the entity is updated again and again
SpecCreature == InitCreature /\ [][NextCreature]_vars /\ WF_vars(CreatureUpdate)

-----------------------------------------------------------------------------
\* whether the bounding boxes of the sprites of a and b overlap in world space
WorldBoxesOverlap(a, b) ==
    LET box_a == get_bounding_box(get_current_sprite(a))
        box_b == get_bounding_box(get_current_sprite(b))
    IN  /\ a.x < b.x + Cells(box_b[1])
        /\ b.x < a.x + Cells(box_a[1])
        /\ a.y < b.y + Cells(box_b[2])
        /\ b.y < a.y + Cells(box_a[2])

\* an entity whose sprite is one non-transparent character
OneByOne(e) ==
    /\ get_bounding_box(get_current_sprite(e)) = <<1, 1>>
    /\ get_current_sprite(e).lines[1][1] \notin TRANSPARENCY_CHARS

\* C13: check_collisions reports no pair of entities whose bounding boxes do
\* not overlap in world space, and it reports every pair of 1x1 entities with
\* non-transparent glyphs at identical world coordinates
C13_CollisionsFollowWorldBoxes ==
    last.op = "check_collisions" =>
        \A p \in KeyPairs(Mgr) :
            /\ ~WorldBoxesOverlap(entities[p[1]], entities[p[2]]) => p \notin last.ret
            /\ (/\ OneByOne(entities[p[1]])
                /\ OneByOne(entities[p[2]])
                /\ entities[p[1]].x = entities[p[2]].x
                /\ entities[p[1]].y = entities[p[2]].y) => p \in last.ret

\* the case of C13: check_collisions ran on two entities whose bounding boxes
\* do not overlap, one of them left of the left edge
C13_DisjointBoxesChecked ==
    /\ last.op = "check_collisions"
    /\ \E p \in KeyPairs(Mgr) :
           /\ ~WorldBoxesOverlap(entities[p[1]], entities[p[2]])
           /\ entities[p[1]].x < 0

-----------------------------------------------------------------------------
\* whether a non-transparent character of the sprite of e falls on the cell
\* c of a screen of w x h cells
Covers(e, c, w, h) ==
    /\ c[1] < w
    /\ c[2] < h
    /\ \E p \in get_non_transparent_positions(get_current_sprite(e)) :
           ToScreen(e.x) + p[1] = c[1] /\ ToScreen(e.y) + p[2] = c[2]

\* the character of the sprite of e that falls on the cell c
CharOn(e, c) ==
    get_char_at(get_current_sprite(e), c[1] - ToScreen(e.x), c[2] - ToScreen(e.y))

\* the keys of the stored entities that cover the cell c
Covering(c, w, h) == {k \in DOMAIN entities : Covers(entities[k], c, w, h)}

\* C14: after render_all, a buffer cell covered by non-transparent sprite
\* cells of entities with different depths holds the character of a covering
\* entity with the lowest depth
C14_LowestDepthOnTop ==
    last.op = "render_all" =>
        \A c \in DOMAIN buffer :
            LET cov == Covering(c, last.arg[1], last.arg[2])
            IN  (\E k1, k2 \in cov : DepthOf(entities[k1]) # DepthOf(entities[k2])) =>
                    \E k \in cov :
                        /\ \A o \in cov : DepthOf(entities[k]) <= DepthOf(entities[o])
                        /\ buffer[c].ch = CharOn(entities[k], c)

\* the case of C14: render_all painted a cell that two entities with different
\* depths and different characters cover
C14_TwoDepthsOnOneCell ==
    /\ last.op = "render_all"
    /\ \E c \in DOMAIN buffer :
           \E k1, k2 \in Covering(c, last.arg[1], last.arg[2]) :
               /\ DepthOf(entities[k1]) # DepthOf(entities[k2])
               /\ CharOn(entities[k1], c) # CharOn(entities[k2], c)

-----------------------------------------------------------------------------
\* C15: Entity::render changes no buffer cell but those that a non-transparent
\* character of the entity's sprite falls on inside the screen bounds; every
\* other cell keeps its character and its color
C15_RenderFrame ==
    [][(calls' = calls + 1 /\ last'.op = "render") =>
          /\ DOMAIN buffer' = DOMAIN buffer
          /\ \A c \in DOMAIN buffer :
                 buffer'[c] # buffer[c] =>
                     Covers(entities[last'.arg[1]], c, last'.arg[2], last'.arg[3])]_vars

\* the case of C15: an entity was rendered whose sprite has a transparent
\* character on a cell that held a character before
C15_TransparentOverCharacter ==
    /\ last.op = "render"
    /\ \E c \in DOMAIN buffer :
           /\ Reaching(entities[last.arg[1]], c, last.arg[2], last.arg[3]) # {}
           /\ ~Covers(entities[last.arg[1]], c, last.arg[2], last.arg[3])
           /\ buffer[c].ch = "~"

-----------------------------------------------------------------------------
\* whether <<col, row>> lies outside the stored extent of the sprite s
OutsideExtent(s, col, row) ==
    \/ row >= Len(s.lines)
    \/ col >= Len(s.lines[row + 1])

\* C20: for a sprite and a <<col, row>> outside its stored extent, get_char_at
\* returns the space character, is_transparent_at returns true and
\* get_color_at returns None
C20_OutsideExtentIsBlank ==
    (/\ last.op = "sprite_at"
     /\ OutsideExtent(get_current_sprite(entities[last.arg[1]]), last.arg[2], last.arg[3]))
        => last.ret = <<" ", TRUE, "None">>

\* the case of C20: the sprite functions were asked about a row past the last
\* line of a sprite whose color mask has a line at that row
C20_PastLastLine ==
    /\ last.op = "sprite_at"
    /\ last.arg[3] >= Len(get_current_sprite(entities[last.arg[1]]).lines)
    /\ get_current_sprite(entities[last.arg[1]]).color_mask.some
    /\ last.arg[3] < Len(get_current_sprite(entities[last.arg[1]]).color_mask.lines)

-----------------------------------------------------------------------------
\* what initialize_aquarium is to leave in an empty manager m for a screen of
\* w x h cells
Populated(m, w, h) ==
    LET of(type) == {m.entities[k] : k \in get_entities_by_type(m, type)}
        count(type) == Cardinality(get_entities_by_type(m, type))
    IN  /\ count("fish") = ((h - 9) * w) \div 350
        /\ count("seaweed") = (IF w \div 15 >= 1 THEN w \div 15 ELSE 1)
        /\ count("castle") = 1
        /\ \A c \in of("castle") : c.x = Cells(w - 32) /\ c.y = Cells(h - 13)
        /\ count("water_surface") = 4
        /\ {l.y : l \in of("water_surface")} = {Cells(5), Cells(6), Cells(7), Cells(8)}
        /\ Cardinality({k \in DOMAIN m.entities : m.entities[k].type \in LargeTypes}) = 1
        /\ count("bubble") = 0

\* C16: initialize_aquarium on an empty manager leaves floor((h-9)*w/350) fish,
\* max(1, floor(w/15)) seaweed, one castle at (w-32, h-13), four water layers
\* at y = 5..8 and one large creature; on a screen of 80 x 24 these are 3 fish,
\* 5 seaweed and the castle at (48, 11)
C16_InitialPopulation ==
    last.op = "initialize_aquarium" =>
        /\ Populated(Mgr, ScreenWidth, ScreenHeight)
        /\ \A r \in InitDraws(80, 24, classic_mode) :
               LET m == initialize_aquarium(EntityManager_new(classic_mode), 80, 24, r)
               IN  /\ Populated(m, 80, 24)
                   /\ Cardinality(get_entities_by_type(m, "fish")) = 3
                   /\ Cardinality(get_entities_by_type(m, "seaweed")) = 5
                   /\ \A k \in get_entities_by_type(m, "castle") :
                          m.entities[k].x = Cells(48) /\ m.entities[k].y = Cells(11)

\* the case of C16: initialize_aquarium has run, it added fish and it drew a
\* shark, which comes with its teeth, as the large creature
C16_InitializedWithShark ==
    /\ last.op = "initialize_aquarium"
    /\ get_entities_by_type(Mgr, "fish") # {}
    /\ get_entities_by_type(Mgr, "shark") # {}
    /\ get_entities_by_type(Mgr, "shark_teeth") # {}

-----------------------------------------------------------------------------
\* C19: an update of an animation that does not loop never moves the frame
\* index back and never past the last frame N - 1, and once the index is
\* N - 1 every further update leaves it there
C19_NonLoopingSaturates ==
    [][(last'.op = "animation_update" /\ ~animation.looping) =>
          /\ animation'.current_frame >= animation.current_frame
          /\ animation'.current_frame <= animation.frames - 1
          /\ animation.current_frame = animation.frames - 1 =>
                 animation'.current_frame = animation.frames - 1]_vars

\* the case of C19: an animation of at least three frames that does not loop
\* was on its last frame when an update found a frame due, and it still is
C19_AdvancedPastLastFrame ==
    /\ last.op = "animation_update"
    /\ ~animation.looping
    /\ animation.frames >= 3
    /\ last.ret = <<animation.frames - 1, TRUE>>
    /\ animation.current_frame = animation.frames - 1

-----------------------------------------------------------------------------
\* the statement of C17 as it stands: a bubble is alive after an update
\* exactly if the update leaves y > 9, wherever the bubble is
C17_AliveExactlyBelowSurface ==
    [][(last'.op = "update" /\ creature.type = "bubble") =>
          (creature'.alive <=> creature'.y > Cells(9))]_vars

\* C17: a bubble created at y = 15 on the screen and updated at 60 ticks per
\* second reaches y <= 9 within 7 ticks; after every update that leaves y > 9
\* and the bubble no more than 5 columns right of the screen it is alive, and
\* after the first update that leaves y <= 9 it is not
C17_BubblePopsAtSurface ==
    /\ [][(/\ last'.op = "update"
           /\ creature.type = "bubble"
           /\ ToScreen(creature'.x) <= ScreenWidth + 5) =>
              (creature'.alive <=> creature'.y > Cells(9))]_vars
    /\ [](creature.type = "bubble" /\ creature.alive => ticks < 7)
    /\ ((creature.type = "bubble" /\ ToScreen(creature.x) <= ScreenWidth)
            ~> (creature.y <= Cells(9) /\ ~creature.alive /\ ticks <= 7))

\* the case of C17: a bubble that several updates left alive below y = 9 has
\* reached y <= 9 and is not alive
C17_BubblePopped ==
    /\ last.op = "update"
    /\ creature.type = "bubble"
    /\ ticks > 2
    /\ creature.y <= Cells(9)
    /\ ~creature.alive

\* C18: every update with a positive delta time moves a fish that faces right
\* to a greater x, and once the right edge of its sprite is beyond the width
\* of the screen the fish is eventually not alive
C18_RightFishLeaves ==
    /\ [][(last'.op = "update" /\ creature.type = "fish" /\ creature.dir = "R") =>
              creature'.x > creature.x]_vars
    /\ ((/\ creature.type = "fish"
          /\ creature.dir = "R"
          /\ creature.x + Cells(FishBox(creature.variant, "R")[1]) > Cells(ScreenWidth))
            ~> ~creature.alive)

\* the case of C18: a fish that faces right was alive with the right edge of
\* its sprite beyond the width, and an update has moved it out
C18_RightFishGone ==
    /\ last.op = "update"
    /\ creature.type = "fish"
    /\ creature.dir = "R"
    /\ creature.x > Cells(ScreenWidth)
    /\ ~creature.alive

-----------------------------------------------------------------------------
(* The depth index *)

\* the places <<depth, position>> of the depth index that hold the id
IndexPlaces(id) ==
    {p \in UNION {{<<d, i>> : i \in DOMAIN depth_layers[d]} : d \in DOMAIN depth_layers} :
        depth_layers[p[1]][p[2]] = id}

\* C27: after any sequence of add_entity, remove_entity and update_all the
\* depth index and the entity map agree: every stored id is in the index
\* exactly once, under the depth of its entity; the index holds no id that
\* is not stored; and the index holds no empty list.
C27_DepthIndexAgrees ==
    /\ \A id \in DOMAIN entities :
          /\ Cardinality(IndexPlaces(id)) = 1
          /\ \A p \in IndexPlaces(id) : p[1] = DepthOf(entities[id])
    /\ \A d \in DOMAIN depth_layers :
          /\ depth_layers[d] # <<>>
          /\ \A i \in DOMAIN depth_layers[d] : depth_layers[d][i] \in DOMAIN entities

\* the case of C27: a stored entity was removed while entities of two
\* depths stay stored
C27_RemovedAmongOthers ==
    /\ last.op = "remove_entity"
    /\ last.ret = 1
    /\ Cardinality(DOMAIN depth_layers) >= 2

-----------------------------------------------------------------------------
(* The large-creature slot and classic mode *)

\* C26: in every reachable state has_large_creature() is true exactly when
\* a ship, whale, sea monster, big fish or shark is stored in the manager:
\* the slot is set when one is spawned and cleared when it dies or is
\* removed, the shark removed by a bite included.
C26_SlotTracksLargeCreature ==
    has_large_creature(Mgr) <=> LargeStored(entities) # {}

\* the case of C26: the shark timer has stored a shark
C26_TimerSharkStored ==
    /\ last.op = "tick"
    /\ last.spawn # <<>>
    /\ last.spawn[1] \in LargeStored(entities)
    /\ entities[last.spawn[1]].type = "shark"

\* the spawning functions that fill the large-creature slot
LargeSpawners ==
    {"add_ship", "add_whale", "add_sea_monster", "add_big_fish", "add_shark",
     "random_object"}

\* C25: each of add_ship, add_whale, add_sea_monster, add_big_fish, add_shark
\* and random_object, called while the slot is occupied, changes nothing:
\* the entity map, the depth index, the id counter and the slot stay as
\* they were.
C25_OccupiedSlotNoOp ==
    [][(calls' = calls + 1 /\ last'.op \in LargeSpawners /\ has_large_creature(Mgr))
         => UNCHANGED <<entities, depth_layers, next_id, large_creature_id>>]_vars

\* the case of C25: add_whale was called while a ship held the slot
C25_WhaleRefused ==
    /\ last.op = "add_whale"
    /\ has_large_creature(Mgr)
    /\ entities[large_creature_id].type = "ship"

\* C24: in classic mode every fish, whichever path spawned it (initial
\* population, timer, death callback), is of an Old species, every big fish
\* is Variant1 and every sea monster has the old sprites.
C24_ClassicModeSpecies ==
    classic_mode =>
        \A k \in DOMAIN entities :
            /\ entities[k].type = "fish" => entities[k].variant \in OldSpecies
            /\ entities[k].type # "big_fish_2"
            /\ entities[k].type = "sea_monster" => entities[k].variant = "old"

\* the case of C24: in classic mode the fish timer has stored a fish
C24_TimerFishInClassicMode ==
    /\ classic_mode
    /\ last.op = "tick"
    /\ ticks >= 1
    /\ fish_timer = 0
    /\ get_entities_by_type(Mgr, "fish") # {}

-----------------------------------------------------------------------------
(* The water surface sprites (src/src/entities/water_surface.rs).  A line   *)
(* of text is the sequence of its characters.                               *)

\* the four segments of create_water_layer_sprites, layer 0 first
water_segments ==
    <<<<"~", "~", "~", "~", "~", "~", "~", "~", "~", "~", "~",
        "~", "~", "~", "~", "~", "~", "~", "~", "~", "~", "~",
        "~", "~", "~", "~", "~", "~", "~", "~", "~", "~", "~">>,
      <<"^", "^", "^", "^", " ", "^", "^", "^", " ", " ", "^",
        "^", "^", " ", " ", " ", "^", "^", "^", " ", " ", " ",
        " ", "^", "^", "^", "^", " ", " ", " ", " ", " ", " ">>,
      <<"^", "^", "^", "^", " ", " ", " ", " ", " ", " ", "^",
        "^", "^", "^", " ", " ", " ", " ", " ", "^", "^", "^",
        " ", " ", " ", " ", "^", "^", " ", " ", " ", " ", " ">>,
      <<"^", "^", " ", " ", " ", " ", " ", " ", "^", "^", "^",
        "^", " ", " ", " ", " ", " ", " ", "^", "^", "^", " ",
        " ", " ", " ", "^", "^", "^", "^", "^", "^", " ", " ">>>>

RECURSIVE Repeat(_, _)
\* str::repeat
Repeat(line, n) == IF n = 0 THEN <<>> ELSE line \o Repeat(line, n - 1)

\* str::lines of a text that holds no line break
Lines(text) == IF text = <<>> THEN <<>> ELSE <<text>>

\* a tiling that is cut from a single copy of the segment
WaterFrame_single_segment(segment, frame, screen_width) ==
    LET start_pos == (frame * 2) % Len(segment)
        tiled_segment == SubSeq(segment, start_pos + 1, Len(segment))
    IN  SubSeq(tiled_segment, 1, Min(Len(tiled_segment), screen_width))

\* the body of the loop of create_water_layer_sprites: the line of one frame
WaterFrame(segment, frame, screen_width) ==
    LET segment_length == Len(segment)
        repeat_count == screen_width \div segment_length + 2
        shift == frame * 2
        extended_segment == Repeat(segment, repeat_count + 1)
        start_pos == shift % segment_length
        end_pos == start_pos + screen_width + 10
        tiled_segment ==
            IF end_pos <= Len(extended_segment)
            THEN SubSeq(extended_segment, start_pos + 1, end_pos)
            ELSE SubSeq(extended_segment, start_pos + 1, Len(extended_segment))
                     \o SubSeq(extended_segment, 1, end_pos - Len(extended_segment))
    IN  \* String::truncate
        SubSeq(tiled_segment, 1, Min(Len(tiled_segment), screen_width))

\* WaterSurface::create_water_layer_sprites: the frames 0..7, each a sprite
\* with a mask of as many "C" as the line is long
create_water_layer_sprites(layer_index, screen_width) ==
    [frame \in 1 .. 8 |->
        LET tiled_segment == WaterFrame(water_segments[(layer_index % 4) + 1], frame - 1,
                                        screen_width)
        IN  [lines |-> Lines(tiled_segment),
             color_mask |-> Mask(Lines([i \in DOMAIN tiled_segment |-> "C"]))]]

\* WaterSurface::layer_index; position.y is 5 + layer_index and never changes
layer_index(e) == (e.y \div 1000) - 5

\* WaterSurface::new with the frames of its animation kept in the entity
WaterSurface_with_sprites(id, index, screen_width) ==
    [WaterSurface_new(id, index, screen_width)
        EXCEPT !.variant = create_water_layer_sprites(index, screen_width)]

\* WaterSurface::resize
resize(e, new_screen_width) ==
    [e EXCEPT !.variant = create_water_layer_sprites(layer_index(e), new_screen_width)]

-----------------------------------------------------------------------------
(* One entity, created and then called through the Entity trait *)

StaticTypes == {"castle", "seaweed", "water_surface"}
MovingTypes == {"fish", "bubble", "shark", "shark_teeth", "ship", "whale", "sea_monster",
                "big_fish_1", "big_fish_2"}

\* Entity::velocity.  The static types answer Velocity::zero(): their dx and
\* dy hold zero from construction on
velocity(e) == <<e.dx, e.dy>>

\* a set_velocity that every type obeys
set_velocity_obeyed(e, v) == [e EXCEPT !.dx = v[1], !.dy = v[2]]

\* Entity::set_velocity: Castle, Seaweed and WaterSurface ignore it
set_velocity(e, v) ==
    IF e.type \in StaticTypes THEN e
    ELSE [e EXCEPT !.dx = v[1], !.dy = v[2]]

\* a kill that brings a dead entity back
kill_toggling(e) == [e EXCEPT !.alive = ~e.alive]

\* Entity::kill
kill(e) == [e EXCEPT !.alive = FALSE]

\* delta_time of an update: a frame at 60 per second, and a stalled frame as
\* long as 50 frames of 16 ms
UpdateTimes == {16, 17, 800}

\* the velocities handed to set_velocity
Velocities == {<<1000, 0>>, <<-500, 250>>}

\* the widths WaterSurface::resize is called with
ResizeWidths == {0, 1, 33, 34, 2 * ScreenWidth}

\* the entities the constructors build on the screen, the water surfaces
\* apart: the fish, bubble and large creatures as the spawning functions
\* place them, a fish below the screen, a right-facing fish one frame of
\* 16 ms short of the right edge, and bubbles on the screen, eight columns to
\* the left of it, eight columns to the right of it and five and a half
\* columns to the right of it
EntityDrawn ==
    {Fish_new_random(id, ScreenWidth, ScreenHeight, FALSE, r) :
        id \in {1, 2}, r \in FishDraws(ScreenHeight, FALSE)}
    \cup {[Fish_new_random(1, ScreenWidth, ScreenHeight, FALSE, r)
              EXCEPT !.y = Cells(ScreenHeight + 1)] : r \in FishDraws(ScreenHeight, FALSE)}
    \cup {[Fish_new_random(2, ScreenWidth, ScreenHeight, FALSE, r)
              EXCEPT !.x = Cells(ScreenWidth) - Step(r.speed, 16)] :
             r \in FishDraws(ScreenHeight, FALSE)}
    \cup {Bubble_new(1, x, Cells(15), DepthFishStart, 0) :
             x \in {Cells(10), Cells(-8), Cells(ScreenWidth + 8), Cells(ScreenWidth + 5) + 500}}
    \cup {Ship_new(1, ScreenWidth, d) : d \in {"L", "R"}}
    \cup {Whale_new(1, ScreenWidth, d) : d \in {"L", "R"}}
    \cup {SeaMonster_new(1, ScreenWidth, c, d) : c \in BOOLEAN, d \in {"L", "R"}}
    \cup {BigFish_new_variant(1, ScreenWidth, ScreenHeight, v, d, 9) :
             v \in BigFishVariants(FALSE), d \in {"L", "R"}}
    \cup {SharkPair(EntityManager_new(FALSE), ScreenWidth, ScreenHeight, r)[i] :
             r \in SharkDraws(ScreenHeight), i \in {1, 2}}
    \cup {Seaweed_new_random(1, ScreenWidth, ScreenHeight, r) : r \in SeaweedDraws}
    \cup {Castle_new(1, ScreenWidth, ScreenHeight)}

\* no entity yet
InitEntity ==
    /\ InitApp
    /\ buffer = Buffer_empty
    /\ animation = NoAnimation
    /\ creature = NoCreature

\* the next state holds the entity e after the operation op
EntityBecomes(e, op, arg) ==
    /\ creature' = e
    /\ last' = [last EXCEPT !.op = op, !.arg = arg, !.ret = IsAlive(creature)]
    /\ UNCHANGED <<mgrVars, appVars, id_log, ticks, buffer, animation>>

\* a constructor; for a water surface arg is the screen width it is built for
EntityCreate ==
    /\ creature = NoCreature
    /\ \/ \E e \in EntityDrawn : EntityBecomes(e, "new", 0)
       \/ \E index \in 0 .. 3, w \in 0 .. ScreenWidth :
              EntityBecomes(WaterSurface_with_sprites(1, index, w), "new", w)
    /\ UNCHANGED calls

\* an operation of the Entity trait on the entity that was created
EntityCalled(e, op, arg) ==
    /\ creature # NoCreature
    /\ calls < MaxOps
    /\ calls' = calls + 1
    /\ EntityBecomes(e, op, arg)

\* Entity::update
EntityUpdated ==
    \E dt \in UpdateTimes :
        EntityCalled(EntityUpdate(creature, dt, ScreenWidth, ScreenHeight), "update", dt)

\* Entity::set_velocity
EntitySetVelocity ==
    /\ creature.type \in StaticTypes
    /\ \E v \in Velocities : EntityCalled(set_velocity(creature, v), "set_velocity", v)

\* Entity::kill
EntityKill == EntityCalled(kill(creature), "kill", 0)

\* WaterSurface::resize
EntityResize ==
    /\ creature.type = "water_surface"
    /\ \E w \in ResizeWidths : EntityCalled(resize(creature, w), "resize", w)

NextEntity == EntityCreate \/ EntityUpdated \/ EntitySetVelocity \/ EntityKill \/ EntityResize

SpecEntity == InitEntity /\ [][NextEntity]_vars

-----------------------------------------------------------------------------
(* Properties of one entity *)

\* C21: for every screen width, each of the 8 frames of each of the 4 water
\* layers, built for that width at creation or by resize, is the layer's
\* segment tiled over a line at least as wide as the screen: no gap is left
\* at the right edge.
C21_WaterFramesFillWidth ==
    (creature.type = "water_surface" /\ last.op \in {"new", "resize"}) =>
        /\ DOMAIN creature.variant = 1 .. 8
        /\ \A frame \in 1 .. 8 :
              LET sprite == creature.variant[frame]
                  segment == water_segments[layer_index(creature) + 1]
              IN  /\ get_bounding_box(sprite)[1] >= last.arg
                  /\ last.arg > 0 =>
                        /\ Len(sprite.lines) = 1
                        /\ \A i \in 1 .. last.arg :
                              sprite.lines[1][i]
                                  = segment[((2 * (frame - 1) + i - 1) % Len(segment)) + 1]

\* the case of C21: a water surface was resized to a width that takes more
\* than two copies of the segment
C21_ResizedToWideScreen ==
    /\ creature.type = "water_surface"
    /\ last.op = "resize"
    /\ last.arg > 2 * Len(water_segments[1])

\* C22: for Castle, Seaweed and WaterSurface set_velocity has no effect:
\* velocity() is zero before and after it, and neither set_velocity nor any
\* later update changes the position.
C22_StaticIgnoresVelocity ==
    [][(creature.type \in StaticTypes /\ last'.op \in {"set_velocity", "update"})
         => /\ velocity(creature) = <<0, 0>>
            /\ velocity(creature') = <<0, 0>>
            /\ creature'.x = creature.x
            /\ creature'.y = creature.y
            /\ last'.op = "set_velocity" => creature' = creature]_vars

\* the case of C22: set_velocity was called on a seaweed that updates had aged
C22_VelocitySetOnSeaweed ==
    /\ creature.type = "seaweed"
    /\ last.op = "set_velocity"
    /\ creature.age > 0

\* C23: for every entity type kill() makes is_alive() false, a second kill()
\* changes nothing, and once is_alive() is false no later update or kill
\* makes it true again.
C23_KillIsFinal ==
    [][(creature # NoCreature)
         => /\ last'.op = "kill" => ~IsAlive(creature')
            /\ (last.op = "kill" /\ last'.op = "kill") => creature' = creature
            /\ (~IsAlive(creature) /\ last'.op \in {"update", "kill"})
                  => ~IsAlive(creature')]_vars

\* the case of C23: a big fish that was not alive was updated
C23_DeadBigFishUpdated ==
    /\ creature.type = "big_fish_2"
    /\ last.op = "update"
    /\ last.ret = FALSE

\* the bounding box of the fish, which spans the columns from x up to, not
\* including, x + width and the rows from y up to y + height, has no column
\* or no row on the screen
FishOutside(e) ==
    LET box == FishBox(e.variant, e.dir)
    IN  \/ e.x + Cells(box[1]) <= 0
        \/ e.x >= Cells(ScreenWidth)
        \/ e.y + Cells(box[2]) <= 0
        \/ e.y >= Cells(ScreenHeight)

\* C28: after each update a fish is dead exactly when its bounding box lies
\* fully outside the screen on one of the four sides, with no margin: a fish
\* with a part of its box on the screen stays alive, and a fish whose box has
\* just become fully outside is dead.
C28_FishDeadExactlyOutside ==
    [][(creature.type = "fish" /\ creature.alive /\ last'.op = "update")
         => (~creature'.alive <=> FishOutside(creature'))]_vars

\* the case of C28: an update has taken a living fish to the right edge or
\* beyond it
C28_FishLeftTheScreen ==
    /\ creature.type = "fish"
    /\ last.op = "update"
    /\ last.ret = TRUE
    /\ creature.x >= Cells(ScreenWidth)

\* C29: every moving entity type integrates its position in update by
\* position += velocity * delta_seconds * 60, so entities of different types
\* with equal velocity cover the same distance in the same tick.
C29_SameIntegrationRule ==
    [][(creature.type \in MovingTypes /\ creature.alive /\ last'.op = "update")
         => /\ creature'.x - creature.x = Step(creature.dx, last'.arg)
            /\ creature'.y - creature.y = Step(creature.dy, last'.arg)]_vars

\* the case of C29: a living big fish was updated
C29_BigFishUpdated ==
    /\ creature.type = "big_fish_1"
    /\ last.op = "update"
    /\ last.ret = TRUE

\* width of the sprite of a large creature
LargeWidth(e) ==
    CASE e.type = "ship"        -> IF e.dir = "R" THEN 27 ELSE 25
      [] e.type = "whale"       -> IF e.dir = "R" THEN 19 ELSE 20
      [] e.type = "sea_monster" -> SeaMonsterWidth(e.variant, e.dir)
      [] e.type = "shark"       -> 53
      [] e.type \in {"big_fish_1", "big_fish_2"} -> BigFishWidth(e.variant, e.dir)

\* C30: a large creature dies only when its sprite is fully past the screen
\* edge in its direction of travel: no update leaves it dead while a column
\* of its bounding box is still inside the screen.
C30_LargeDiesPastEdge ==
    [][(creature.type \in LargeTypes /\ IsAlive(creature) /\ last'.op = "update"
        /\ ~IsAlive(creature'))
         => IF creature'.dir = "R"
            THEN creature'.x >= Cells(ScreenWidth)
            ELSE creature'.x + Cells(LargeWidth(creature')) <= 0]_vars

\* the case of C30: an update has left a sea monster dead
C30_SeaMonsterDied ==
    /\ creature.type = "sea_monster"
    /\ last.op = "update"
    /\ last.ret = TRUE
    /\ ~creature.alive

-----------------------------------------------------------------------------
(* Spawn positions *)

\* C31: at spawn, for either direction of travel, every large creature is
\* placed with its sprite bounding box entirely outside the screen, beyond
\* the edge opposite to its direction of travel.
C31_LargeSpawnsOffScreen ==
    (last.op = "new" /\ creature.type \in LargeTypes) =>
        IF creature.dir = "R"
        THEN creature.x + Cells(LargeWidth(creature)) <= 0
        ELSE creature.x >= Cells(ScreenWidth)

\* the case of C31: a ship that travels right has been built
C31_ShipSpawnedTravellingRight ==
    /\ last.op = "new"
    /\ creature.type = "ship"
    /\ creature.dir = "R"

\* C32: a bubble that drifts off the screen beyond the margin dies on either
\* side: it is dead after the update that leaves its x more than 5 cells
\* past the right edge, and after the update that leaves its x more than 5
\* cells left of the left edge (x < -5).
C32_BubbleDiesOffEitherSide ==
    [][(creature.type = "bubble" /\ creature.alive /\ last'.op = "update"
        /\ (creature'.x > Cells(ScreenWidth + 5) \/ creature'.x < Cells(-5)))
         => ~creature'.alive]_vars

\* the case of C32: a bubble more than 5 cells left of the screen was updated
C32_BubbleLeftOfScreenUpdated ==
    /\ creature.type = "bubble"
    /\ last.op = "update"
    /\ last.ret = TRUE
    /\ creature.x < Cells(-5)

-----------------------------------------------------------------------------
(* Rendering at the screen coordinates *)

\* a coordinate, in thousandths of a cell, truncated to whole cells
Trunc(p) == IF p >= 0 THEN p \div 1000 ELSE 0 - ((0 - p) \div 1000)

\* C33: render writes the sprite cell (col, row) of an entity only to the
\* buffer cell (trunc(x) + col, trunc(y) + row); a sprite cell whose target
\* lies outside the buffer, at a negative coordinate included, is dropped
\* and written to no buffer cell.
C33_RenderAtTruncatedPosition ==
    [][(calls' = calls + 1 /\ last'.op = "render") =>
          \A c \in DOMAIN buffer :
              buffer'[c] # buffer[c] =>
                  \E p \in get_non_transparent_positions(
                               get_current_sprite(entities[last'.arg[1]])) :
                      /\ Trunc(entities[last'.arg[1]].x) + p[1] = c[1]
                      /\ Trunc(entities[last'.arg[1]].y) + p[2] = c[2]]_vars

\* the case of C33: an entity left of the left edge was rendered
C33_RenderedLeftOfScreen ==
    /\ last.op = "render"
    /\ entities[last.arg[1]].x <= Cells(-1)

-----------------------------------------------------------------------------
(* The frames of an animation *)

\* C34: for an animation with N frames current_frame is always a valid
\* index, 0 <= current_frame < N; an update made before frame_duration has
\* elapsed since the last advance leaves current_frame unchanged; an update
\* that takes effect on a looping animation moves the frame from i to
\* (i + 1) mod N; and a 1-frame animation never advances.
C34_FrameIndexAdvances ==
    /\ [](0 <= animation.current_frame /\ animation.current_frame < animation.frames)
    /\ [][last'.op = "animation_update" =>
            /\ ~last'.ret[2] => animation'.current_frame = animation.current_frame
            /\ (last'.ret[2] /\ animation.looping /\ animation.frames > 1) =>
                   animation'.current_frame
                       = (animation.current_frame + 1) % animation.frames
            /\ animation.frames = 1 => animation'.current_frame = 0]_vars

\* the case of C34: an update that was due took a looping animation of at
\* least three frames from its last frame to frame 0
C34_LoopedToFirstFrame ==
    /\ last.op = "animation_update"
    /\ animation.looping
    /\ animation.frames >= 3
    /\ last.ret = <<animation.frames - 1, TRUE>>
    /\ animation.current_frame = 0

-----------------------------------------------------------------------------
\* C35: a tick spawns at most one fish, one seaweed and one shark, and it
\* spawns an entity of one of these kinds only if more than the interval of
\* that kind (2 s, 5 s, 30 s) has passed since the last tick that spawned
\* one, however many ticks lie in between.
C35_SpawnsAreAnIntervalApart ==
    [][last'.op = "tick" =>
          \A kind \in TimedKinds :
              /\ Cardinality(last'.bite.spawned[kind]) <= 1
              /\ (last'.bite.spawned[kind] # {} /\ last.since[kind] # Never) =>
                     last.since[kind] + last'.arg > SpawnInterval(kind)]_vars

\* a tick spawned a seaweed, the next one came too early to spawn another,
\* and the one after it spawned the second
C35_SecondSeaweedSpawned ==
    /\ last.op = "tick" /\ ticks = 3
    /\ last.since["seaweed"] = 0
    /\ Cardinality(get_entities_by_type(Mgr, "seaweed")) = 2

-----------------------------------------------------------------------------
-----------------------------------------------------------------------------
\* C37: every stored entity reports as its id the key under which the manager
\* stores it, whichever function spawned it.
C37_IdIsStorageKey ==
    \A k \in DOMAIN entities : entities[k].id = k

\* add_shark stored a shark and its teeth, and every other stored entity
\* reports its own key
C37_TeethStoredByAddShark ==
    /\ last.op = "add_shark"
    /\ \E k \in DOMAIN entities : entities[k].type = "shark_teeth"
    /\ \A k \in DOMAIN entities :
           entities[k].type # "shark_teeth" => entities[k].id = k

-----------------------------------------------------------------------------
\* the pairs <<shark key, teeth key>> of a stored shark and the stored teeth
\* that name it
SharkAndTeeth ==
    {p \in get_entities_by_type(Mgr, "shark") \X get_entities_by_type(Mgr, "shark_teeth") :
        entities[p[2]].shark_id = entities[p[1]].id}

\* the bounding box of both shark sprites: the longest line has 53 characters,
\* and the art has 11 lines, the empty first one included
SharkBox == <<53, 11>>

\* the position of the teeth lies inside the bounding box of the shark's sprite
TeethInsideShark(shark, teeth) ==
    /\ shark.x <= teeth.x /\ teeth.x < shark.x + Cells(SharkBox[1])
    /\ shark.y <= teeth.y /\ teeth.y < shark.y + Cells(SharkBox[2])

\* C39: while a shark and its teeth are both stored and alive, the position
\* of the teeth lies inside the bounding box of the shark's sprite, whichever
\* way the shark travels, and an update moves both by the same amount.
C39_TeethStayInsideShark ==
    /\ [](\A p \in SharkAndTeeth :
              (IsAlive(entities[p[1]]) /\ IsAlive(entities[p[2]]))
                  => TeethInsideShark(entities[p[1]], entities[p[2]]))
    /\ [][\A p \in SharkAndTeeth :
              (p[1] \in DOMAIN entities' /\ p[2] \in DOMAIN entities')
                  => /\ entities'[p[2]].x - entities'[p[1]].x
                          = entities[p[2]].x - entities[p[1]].x
                     /\ entities'[p[2]].y - entities'[p[1]].y
                          = entities[p[2]].y - entities[p[1]].y]_vars

\* add_shark stored a shark that travels to the left, and its teeth
C39_LeftSharkSpawned ==
    /\ last.op = "add_shark"
    /\ \E p \in SharkAndTeeth :
           /\ entities[p[1]].dir = "L"
           /\ IsAlive(entities[p[1]]) /\ IsAlive(entities[p[2]])

-----------------------------------------------------------------------------
(* One large creature in a manager that is updated again and again *)

\* delta_time (ms) of an update_all: half a second and a second
StallTimes == {500, 1000}

\* the manager after random_object on an empty manager
InitLarge ==
    /\ \E classic \in BOOLEAN :
          \E r \in LargeDraws(ScreenHeight, classic) :
              LET m == random_object(EntityManager_new(classic),
                                     ScreenWidth, ScreenHeight, r)
              IN  /\ entities = m.entities
                  /\ depth_layers = m.depth_layers
                  /\ next_id = m.next_id
                  /\ large_creature_id = m.slot
                  /\ classic_mode = classic
                  /\ id_log = m.log
    /\ ticks = 0
    /\ calls = 0
    /\ paused = FALSE
    /\ water_initialized = FALSE
    /\ castle_created = FALSE
    /\ fish_timer = 0
    /\ bubble_timer = 0
    /\ seaweed_timer = 0
    /\ shark_timer = 0
    /\ last = [op |-> "random_object", arg |-> 0, ret |-> 0, peeked |-> NoId,
               upd |-> NoUpdate, spawn |-> <<>>, bite |-> NoBite,
               since |-> [kind \in TimedKinds |-> Never]]
    /\ buffer = Buffer_empty
    /\ animation = NoAnimation
    /\ creature = NoCreature

\* EntityManager::update_all with a positive delta_time, as long as a large
\* creature is stored
UpdateLarge ==
    /\ LargeKeys(Mgr) # {}
    /\ \E dt \in StallTimes :
           LET a == TickUpdate(TheApp, dt, ScreenWidth, ScreenHeight)
           IN  /\ Becomes(a)
               /\ last' = Trace("update_all", dt, 0, a)
    /\ UNCHANGED <<paused, ticks, calls, unitVars>>

NextLarge == UpdateLarge

\* update_all is called again and again
SpecLarge == InitLarge /\ [][NextLarge]_vars /\ WF_vars(UpdateLarge)

\* C38: under repeated update_all calls with a positive delta_time on a
\* screen of a fixed size, a stored large creature (ship, whale, sea monster,
\* big fish, shark) eventually is dead and removed from the manager.
C38_LargeCreatureEventuallyRemoved ==
    (LargeKeys(Mgr) # {}) ~> (LargeKeys(Mgr) = {})

\* an update_all found the big fish dead and removed it
C38_BigFishRemoved ==
    /\ last.op = "update_all"
    /\ \E d \in last.upd.died : d[2] \in {"big_fish_1", "big_fish_2"}
    /\ LargeKeys(Mgr) = {}

-----------------------------------------------------------------------------
(* The app ticking on, with stalls of many seconds between some ticks *)

\* delta_time (ms) of a tick after a long stall
LongTimes == {16000, 31000}

\* so many long ticks outlast the shark timer
SharkTicks == (SharkSpawnIntervalMs \div 16000) + 1

\* App::tick after a long stall; the app is not paused
LongTick ==
    /\ ~paused
    /\ ticks < 2 * SharkTicks
    /\ ticks' = ticks + 1
    /\ \E dt \in LongTimes :
           \E a \in tick(TheApp, dt, ScreenWidth, ScreenHeight) :
               /\ Becomes(a)
               /\ last' = Trace("tick", dt, 0, a)
    /\ UNCHANGED <<paused, calls, unitVars>>

NextTicks == InitializeAquarium \/ LongTick

\* a tick takes place: every LongTick step is one, and one is possible
\* whenever LongTick is, since tick always has an outcome
TickPasses ==
    /\ ~paused
    /\ ticks < 2 * SharkTicks
    /\ ticks' = ticks + 1

\* the app keeps ticking
SpecTicks == Init /\ [][NextTicks]_vars /\ WF_ticks(TickPasses)

====
